---- MODULE Spec2Model ----
(***************************************************************************)
(* A state-machine model of the basis-representation engine of scikit-fda: *)
(* the abstract Basis (construction, rescale, copy, the lazily cached Gram *)
(* matrix, structural equality), FDataBasis and its operations.            *)
(***************************************************************************)
EXTENDS Integers, Sequences, FiniteSets, TLC

\* ------------------------------------------------------------------ bounds
MaxCoord == 2       \* interval end points are drawn from 0..MaxCoord
MaxNBasis == 2      \* n_basis arguments are drawn from 0..MaxNBasis
MaxCalls == 2       \* Gram-returning calls made on one instance
MaxPoints == 2      \* evaluation points in one call
MaxDerivative == 1  \* derivative orders are drawn from -1..MaxDerivative
MaxSamples == 2     \* samples (coefficient rows) of an FDataBasis operand
MaxProduct == 5     \* a product basis is followed while n_basis <= MaxProduct
MaxOps == 2         \* operations applied in a row to one FDataBasis object
MaxShift == 1       \* shifts are drawn from -MaxShift..MaxShift
MaxGridBasis == 21  \* the n_basis of an operand of times with many functions
MaxDepth == 6       \* frames of matrix computations the interpreter allows
MaxFits == 2        \* fit calls made on one estimator
MaxIter == 2        \* maxiter arguments are drawn from 0..MaxIter

\* Basis instances share no state: copy is a deep copy, rescale and the
\* product construct afresh.  The model follows one instance, `basis`, the
\* one the program holds; an operation that returns a new instance makes that
\* one the instance held, and the other operands are drawn as arguments.
VARIABLES
    basis,      \* the Basis instance held: None before construction
    calls,      \* Gram-returning calls made on it
    runAt,      \* the call numbers at which _gram_matrix ran
    returned,   \* the matrices those calls returned
    outcome     \* what the last operation did: "init", "ok" or an error

\* Two threads inside gram_matrix() of one shared instance.
VARIABLES
    tbasis,     \* the shared instance (its cache is tcache)
    tcache,     \* self._gram_matrix_cached
    tpc,        \* per thread: the statement of gram_matrix it is at
    tgram,      \* per thread: the local variable gram of gram_matrix
    tbuild,     \* per thread: the array _gram_matrix is filling
    tloop,      \* per thread: the loop indices (i, j) of _gram_matrix
    tret,       \* per thread: the value gram_matrix returned
    truns       \* executions of _gram_matrix started

\* One call of Basis.evaluate.
VARIABLES
    evBasis,    \* the instance evaluated
    evArgs,     \* the arguments of the last call
    evCalls,    \* the calls of the family rule _evaluate made by it
    evResult    \* what the call returned or raised

\* One call of Basis.default_basis_of_product.
VARIABLES
    prArgs,     \* the two operands of the last call
    prResult    \* the BSpline it constructed, or the error

\* One call of FDataBasis.inner_product.
VARIABLES
    ipArgs,     \* self, other and weights of the last call
    ipResult    \* the path taken and the shape returned, or the error

\* One FDataBasis object and the objects its operations return.
VARIABLES
    fd,         \* the object held: None before construction
    fdCall,     \* the last call: its name, the constructor's arguments, its error
    fdOps       \* operations applied since construction

\* One call of FDataBasis.shift.
VARIABLES
    shSelf,     \* the object shifted
    shArgs,     \* the source as it was at the call, and the arguments
    shResult    \* what the call raised or returned, and the steps it took

\* One call of an FDataBasis operation whose arguments are kept.
VARIABLES
    opSelf,     \* the object the operation is called on, as its caller holds it
    opArgs,     \* the operation, the object as it was at the call, the arguments
    opResult    \* what the call raised or returned

\* One call of FDataBasis.times with two FDataBasis operands.
VARIABLES
    tmArgs,     \* the two operands of the call
    tmResult    \* what the call raised, or the projection it asked for

\* One call of shift_registration, followed through its loop.
VARIABLES
    rgPc,       \* "idle", "loop" (at the test of the while), "returned", "raised"
    rgArgs,     \* the arguments of the call
    rgInitial,  \* the value the caller's initial argument holds
    rgDelta,    \* delta
    rgIter,     \* iter
    rgMaxDiff,  \* max_diff
    rgWhole,    \* tfine as it is before the while (tfine_tmp)
    rgMesh,     \* tfine
    rgCols,     \* D1x: the columns of the derivative values on the whole mesh it holds
    rgD2,       \* d2_regsse: the columns and the number of points it was integrated over
    rgPeriodic, \* periodic and periodic_ext
    rgResult    \* what the call raised or returned

\* One call of landmark_shift.
VARIABLES
    lmArgs,     \* the arguments of the call
    lmResult    \* what the call raised or returned

\* An estimator LinearFunctionalRegression and the fit calls made on it.
VARIABLES
    ftSelf,     \* the estimator: beta_basis, and whether beta_ is set (to that list)
    ftArgs,     \* the caller's X, y and sample_weight as they are now
    ftBefore,   \* X, y, sample_weight and beta_basis as the last call found them
    ftResult,   \* what the last call raised or returned
    ftHistory   \* the outcome of every fit call so far

\* One call of _gram_matrix or _inner_matrix and the calls it makes.
VARIABLES
    gmCall,     \* the call made: _gram_matrix or _inner_matrix, its self and other
    gmStack,    \* the frames of the matrix computations running, innermost last
    gmCount,    \* the integrations (scipy.integrate.quad) made so far
    gmResult    \* what the call returned or raised

\* FDataBasis objects made from one another and the arrays they hold.
VARIABLES
    stHeap,     \* the buffers of the arrays
    stObjs,     \* the FDataBasis objects: the array each holds, the object it came from
    stLast      \* the last operation and the object it made or wrote

basisVars == <<basis, calls, runAt, returned, outcome>>
threadVars == <<tbasis, tcache, tpc, tgram, tbuild, tloop, tret, truns>>
evalVars == <<evBasis, evArgs, evCalls, evResult>>

productVars == <<prArgs, prResult>>
innerVars == <<ipArgs, ipResult>>
fdataVars == <<fd, fdCall, fdOps>>
shiftVars == <<shSelf, shArgs, shResult>>
opVars == <<opSelf, opArgs, opResult>>
timesVars == <<tmArgs, tmResult>>
regVars == <<rgPc, rgArgs, rgInitial, rgDelta, rgIter, rgMaxDiff, rgWhole, rgMesh, rgCols, rgD2, rgPeriodic, rgResult>>

landmarkVars == <<lmArgs, lmResult>>

fitVars == <<ftSelf, ftArgs, ftBefore, ftResult, ftHistory>>

gramVars == <<gmCall, gmStack, gmCount, gmResult>>

storageVars == <<stHeap, stObjs, stLast>>

vars == <<basisVars, threadVars, evalVars, productVars, innerVars, fdataVars, shiftVars, opVars, timesVars, regVars, landmarkVars, fitVars, gramVars, storageVars>>
notBasis == <<threadVars, evalVars, productVars, innerVars, fdataVars, shiftVars, opVars, timesVars, regVars, landmarkVars, fitVars, gramVars, storageVars>>
notThread == <<basisVars, evalVars, productVars, innerVars, fdataVars, shiftVars, opVars, timesVars, regVars, landmarkVars, fitVars, gramVars, storageVars>>
notEval == <<basisVars, threadVars, productVars, innerVars, fdataVars, shiftVars, opVars, timesVars, regVars, landmarkVars, fitVars, gramVars, storageVars>>
notProduct == <<basisVars, threadVars, evalVars, innerVars, fdataVars, shiftVars, opVars, timesVars, regVars, landmarkVars, fitVars, gramVars, storageVars>>
notInner == <<basisVars, threadVars, evalVars, productVars, fdataVars, shiftVars, opVars, timesVars, regVars, landmarkVars, fitVars, gramVars, storageVars>>
notFData == <<basisVars, threadVars, evalVars, productVars, innerVars, shiftVars, opVars, timesVars, regVars, landmarkVars, fitVars, gramVars, storageVars>>
notShift == <<basisVars, threadVars, evalVars, productVars, innerVars, fdataVars, opVars, timesVars, regVars, landmarkVars, fitVars, gramVars, storageVars>>
notOp == <<basisVars, threadVars, evalVars, productVars, innerVars, fdataVars, shiftVars, timesVars, regVars, landmarkVars, fitVars, gramVars, storageVars>>
notTimes == <<basisVars, threadVars, evalVars, productVars, innerVars, fdataVars, shiftVars, opVars, regVars, landmarkVars, fitVars, gramVars, storageVars>>
notReg == <<basisVars, threadVars, evalVars, productVars, innerVars, fdataVars, shiftVars, opVars, timesVars, landmarkVars, fitVars, gramVars, storageVars>>
notLandmark == <<basisVars, threadVars, evalVars, productVars, innerVars, fdataVars, shiftVars, opVars, timesVars, regVars, fitVars, gramVars, storageVars>>
notFit == <<basisVars, threadVars, evalVars, productVars, innerVars, fdataVars, shiftVars, opVars, timesVars, regVars, landmarkVars, gramVars, storageVars>>
notGram == <<basisVars, threadVars, evalVars, productVars, innerVars, fdataVars, shiftVars, opVars, timesVars, regVars, landmarkVars, fitVars, storageVars>>
notStorage == <<basisVars, threadVars, evalVars, productVars, innerVars, fdataVars, shiftVars, opVars, timesVars, regVars, landmarkVars, fitVars, gramVars>>

\* ------------------------------------------------------- Python's None
None == [none |-> TRUE]
Some(x) == [none |-> FALSE, v |-> x]

Min(a, b) == IF a <= b THEN a ELSE b
Max(a, b) == IF a >= b THEN a ELSE b

\* --------------------------------------------------------------- inputs
Coords == 0..MaxCoord
\* a tuple argument: every pair (well-defined or not) and one triple
TupleArgs == {<<a, b>> : a \in Coords, b \in Coords} \cup {<<0, 1, MaxCoord>>}
WellDefined == {t \in TupleArgs : Len(t) = 2 /\ t[1] < t[2]}
\* a list-of-tuples argument: one interval, or two of them
ListArgs == {<<t>> : t \in WellDefined} \cup {<<<<0, 1>>, t>> : t \in {<<1, 2>>, <<1, 1>>}}
Families == {"Monomial", "Fourier", "BSpline"}
NBasisArgs == 0..MaxNBasis

\* ------------------------------------------------------------ Basis
\* _utils._list_of_arrays: a flat tuple becomes a list holding one array, a
\* list of tuples stays a list of arrays
_list_of_arrays(kind, original_array) ==
    IF kind = "tuple" THEN <<original_array>> ELSE original_array

\* TRUE when _check_domain returns, FALSE when it raises ValueError
_check_domain(domain_range) ==
    \A k \in 1..Len(domain_range) :
        ~(Len(domain_range[k]) # 2 \/ domain_range[k][1] >= domain_range[k][2])

\* Basis.__init__: the new instance, or the error it raises.  The argument
\* domain_range is None or Some(list of arrays) after _list_of_arrays.
Basis_init(family, domain_range, n_basis) ==
    IF ~domain_range.none /\ ~_check_domain(domain_range.v)
    THEN [err |-> "ValueError"]
    ELSE IF n_basis < 1
    THEN [err |-> "ValueError"]
    ELSE [err |-> "ok",
          obj |-> [family |-> family,
                   _domain_range |-> domain_range,
                   n_basis |-> n_basis,
                   _gram_matrix_cached |-> None]]

\* the domain_range property
domain_range(self) ==
    IF self._domain_range.none THEN <<<<0, 1>>>> ELSE self._domain_range.v

\* numpy.array_equal on two domain ranges
_same_domain(one_domain_range, other_domain_range) ==
    one_domain_range = other_domain_range

\* _utils._same_domain applied to two objects that have a domain_range
Basis_same_domain(one, other) ==
    _same_domain(domain_range(one), domain_range(other))

\* Basis.__eq__
Basis_eq(self, other) ==
    /\ self.family = other.family
    /\ Basis_same_domain(self, other)
    /\ self.n_basis = other.n_basis

\* hash(basis): the class defines __eq__ and no __hash__, so Python sets
\* __hash__ to None and hash() raises TypeError
Basis_hash(self) == "TypeError"

\* a product basis sized n1 + n2 whatever the order
default_basis_of_product_unpadded(one, other) ==
    IF ~Basis_same_domain(one, other)
    THEN [err |-> "ValueError"]
    ELSE LET norder == Min(8, one.n_basis + other.n_basis)
             n_basis == one.n_basis + other.n_basis
         IN [err |-> "ok", family |-> "BSpline",
             domain_range |-> domain_range(one),
             n_basis |-> n_basis, norder |-> norder]

\* Basis.default_basis_of_product: the BSpline(domain_range, n_basis, norder)
\* call it makes, or the error it raises
default_basis_of_product(one, other) ==
    IF ~Basis_same_domain(one, other)
    THEN [err |-> "ValueError"]
    ELSE LET norder == Min(8, one.n_basis + other.n_basis)
             n_basis == Max(one.n_basis + other.n_basis, norder + 1)
         IN [err |-> "ok", family |-> "BSpline",
             domain_range |-> domain_range(one),
             n_basis |-> n_basis, norder |-> norder]

\* the value scipy's quadrature gives for the integral of phi_i * theta_j
InnerProductTerm(first, i, second, j) ==
    <<first.family, domain_range(first), i, second.family, domain_range(second), j>>

\* Basis._gram_matrix: entry (i, j) with i <= j is computed, (j, i) copies it
_gram_matrix(self) ==
    [p \in (1..self.n_basis) \X (1..self.n_basis) |->
        InnerProductTerm(self, Min(p[1], p[2]), self, Max(p[1], p[2]))]

\* gram_matrix that forgets to fill the cache
gram_matrix_uncached(self) ==
    LET gram == self._gram_matrix_cached
    IN IF gram.none
       THEN [gram |-> _gram_matrix(self), cached |-> None, ran |-> TRUE]
       ELSE [gram |-> gram.v, cached |-> gram, ran |-> FALSE]

\* Basis.gram_matrix: [gram: the matrix returned, cached: the cache after the
\* call, ran: whether _gram_matrix was executed]
gram_matrix(self) ==
    LET gram == self._gram_matrix_cached
    IN IF gram.none
       THEN [gram |-> _gram_matrix(self), cached |-> Some(_gram_matrix(self)),
             ran |-> TRUE]
       ELSE [gram |-> gram.v, cached |-> gram, ran |-> FALSE]

\* ------------------------------------------------------------ actions
\* the instances a caller can have constructed, used as `other` operands
Operands ==
    {Basis_init(family, Some(<<t>>), n_basis).obj :
        family \in Families, t \in WellDefined, n_basis \in 1..MaxNBasis}

\* a new instance is now the one held
Hold(b) ==
    /\ UNCHANGED notBasis
    /\ basis' = Some(b)
    /\ calls' = 0
    /\ runAt' = {}
    /\ returned' = {}

Fail(e) ==
    /\ outcome' = e
    /\ UNCHANGED <<basis, calls, runAt, returned>>
    /\ UNCHANGED notBasis

Make(r) ==
    IF r.err = "ok"
    THEN Hold(r.obj) /\ outcome' = "ok"
    ELSE Fail(r.err)

\* Family(domain_range, n_basis) with a tuple, a list of tuples or None
Construct ==
    /\ basis.none
    /\ \E family \in Families, n_basis \in NBasisArgs :
        \/ Make(Basis_init(family, None, n_basis))
        \/ \E t \in TupleArgs :
             Make(Basis_init(family, Some(_list_of_arrays("tuple", t)), n_basis))
        \/ \E l \in ListArgs :
             Make(Basis_init(family, Some(_list_of_arrays("list", l)), n_basis))

\* Basis.rescale: type(self)(domain_range, self.n_basis), or its error
rescale(self, kind, arg) ==
    Basis_init(self.family,
               Some(_list_of_arrays(kind, IF arg.none THEN domain_range(self) ELSE arg.v)),
               self.n_basis)

\* basis = basis.rescale(domain_range)
Rescale ==
    /\ ~basis.none
    /\ \/ Make(rescale(basis.v, "list", None))
       \/ \E t \in TupleArgs : Make(rescale(basis.v, "tuple", Some(t)))
       \/ \E l \in ListArgs : Make(rescale(basis.v, "list", Some(l)))

\* Basis.copy: copy.deepcopy(self), the cache included
copy(self) == self

\* basis = basis.copy()
Copy ==
    /\ ~basis.none
    /\ Hold(copy(basis.v))
    /\ outcome' = "ok"

\* basis = Basis.default_basis_of_product(basis, other), either way round
DefaultBasisOfProduct ==
    /\ ~basis.none
    /\ basis.v.n_basis < MaxProduct
    /\ \E other \in Operands, swap \in BOOLEAN :
        LET r == IF swap THEN default_basis_of_product(other, basis.v)
                         ELSE default_basis_of_product(basis.v, other)
        IN IF r.err = "ok"
           THEN Make(Basis_init(r.family,
                                Some(_list_of_arrays("list", r.domain_range)),
                                r.n_basis))
           ELSE Fail(r.err)

\* basis.domain_range = value (the property's setter)
SetDomainRange ==
    /\ ~basis.none
    /\ \E t \in WellDefined :
        /\ basis' = Some([basis.v EXCEPT !._domain_range = Some(<<t>>)])
        /\ outcome' = "ok"
        /\ UNCHANGED <<calls, runAt, returned>>
        /\ UNCHANGED notBasis

\* the bookkeeping of a call that returns through self.gram_matrix()
ReturnGram ==
    LET r == gram_matrix(basis.v)
    IN /\ calls < MaxCalls
       /\ basis' = Some([basis.v EXCEPT !._gram_matrix_cached = r.cached])
       /\ calls' = calls + 1
       /\ runAt' = IF r.ran THEN runAt \cup {calls + 1} ELSE runAt
       /\ returned' = returned \cup {r.gram}
       /\ outcome' = "ok"
       /\ UNCHANGED notBasis

\* basis.gram_matrix()
GramMatrix ==
    /\ ~basis.none
    /\ ReturnGram

\* basis._inner_matrix(other) with other None, the instance itself or a Basis
InnerMatrix ==
    /\ ~basis.none
    /\ \/ ReturnGram                                          \* other is None
       \/ \E other \in Operands \cup {basis.v} :
            IF Basis_eq(basis.v, other)
            THEN ReturnGram
            ELSE \* pairwise integration; inner_product checks the domains
                 IF Basis_same_domain(basis.v, other)
                 THEN /\ outcome' = "ok"
                      /\ UNCHANGED <<basis, calls, runAt, returned>>
                      /\ UNCHANGED notBasis
                 ELSE Fail("ValueError")

InitBasis ==
    /\ basis = None
    /\ calls = 0
    /\ runAt = {}
    /\ returned = {}
    /\ outcome = "init"

\* ------------------------------------------- gram_matrix, two threads
Threads == {1, 2}

\* the array np.zeros((n_basis, n_basis)) and the value of an unfilled entry
Zero == <<"0">>
zeros(n) == [p \in (1..n) \X (1..n) |-> Zero]

\* gram = getattr(self, "_gram_matrix_cached", None)
GetAttr(t) ==
    /\ tpc[t] = "getattr"
    /\ tgram' = [tgram EXCEPT ![t] = tcache]
    /\ tpc' = [tpc EXCEPT ![t] = "test"]
    /\ UNCHANGED <<tbasis, tcache, tbuild, tloop, tret, truns>>
    /\ UNCHANGED notThread

\* if gram is None: enter _gram_matrix (fbasis, gram = np.zeros(...))
TestNone(t) ==
    /\ tpc[t] = "test"
    /\ IF tgram[t].none
       THEN /\ tpc' = [tpc EXCEPT ![t] = "compute"]
            /\ tbuild' = [tbuild EXCEPT ![t] = Some(zeros(tbasis.v.n_basis))]
            /\ tloop' = [tloop EXCEPT ![t] = <<1, 1>>]
            /\ truns' = truns + 1
       ELSE /\ tpc' = [tpc EXCEPT ![t] = "return"]
            /\ UNCHANGED <<tbuild, tloop, truns>>
    /\ UNCHANGED <<tbasis, tcache, tgram, tret>>
    /\ UNCHANGED notThread

\* the local effect of one pass of the loops of _gram_matrix, or of its
\* return once the loops are over
FillLocal(t) ==
    LET n == tbasis.v.n_basis
        i == tloop[t][1]
        j == tloop[t][2]
        term == InnerProductTerm(tbasis.v, i, tbasis.v, j)
    IN IF i > n
       THEN /\ tgram' = [tgram EXCEPT ![t] = tbuild[t]]
            /\ tpc' = [tpc EXCEPT ![t] = "store"]
            /\ UNCHANGED <<tbuild, tloop>>
       ELSE /\ tbuild' = [tbuild EXCEPT ![t] =
                            Some([tbuild[t].v EXCEPT ![<<i, j>>] = term,
                                                     ![<<j, i>>] = term])]
            /\ tloop' = [tloop EXCEPT ![t] =
                            IF j < n THEN <<i, j + 1>> ELSE <<i + 1, i + 1>>]
            /\ UNCHANGED <<tgram, tpc>>

\* a _gram_matrix that fills the cached array in place
ComputeStepInPlace(t) ==
    /\ tpc[t] = "compute"
    /\ FillLocal(t)
    /\ tcache' = tbuild'[t]
    /\ UNCHANGED <<tbasis, tret, truns>>
    /\ UNCHANGED notThread

\* _gram_matrix: gram[i, j] = <phi_i, phi_j>; gram[j, i] = gram[i, j]
ComputeStep(t) ==
    /\ tpc[t] = "compute"
    /\ FillLocal(t)
    /\ UNCHANGED <<tbasis, tcache, tret, truns>>
    /\ UNCHANGED notThread

\* self._gram_matrix_cached = gram
StoreCache(t) ==
    /\ tpc[t] = "store"
    /\ tcache' = tgram[t]
    /\ tpc' = [tpc EXCEPT ![t] = "return"]
    /\ UNCHANGED <<tbasis, tgram, tbuild, tloop, tret, truns>>
    /\ UNCHANGED notThread

\* return gram
ReturnGramT(t) ==
    /\ tpc[t] = "return"
    /\ tret' = [tret EXCEPT ![t] = tgram[t]]
    /\ tpc' = [tpc EXCEPT ![t] = "done"]
    /\ UNCHANGED <<tbasis, tcache, tgram, tbuild, tloop, truns>>
    /\ UNCHANGED notThread

TGetAttr == \E t \in Threads : GetAttr(t)
TTestNone == \E t \in Threads : TestNone(t)
TComputeStep == \E t \in Threads : ComputeStep(t)
TStoreCache == \E t \in Threads : StoreCache(t)
TReturn == \E t \in Threads : ReturnGramT(t)

IdleThreads ==
    /\ tbasis = None
    /\ tcache = None
    /\ tpc = [t \in Threads |-> "idle"]
    /\ tgram = [t \in Threads |-> None]
    /\ tbuild = [t \in Threads |-> None]
    /\ tloop = [t \in Threads |-> <<0, 0>>]
    /\ tret = [t \in Threads |-> None]
    /\ truns = 0

\* both threads are about to call gram_matrix() on an instance with no cache
InitThreads ==
    /\ tbasis \in {Some(b) : b \in Operands}
    /\ tcache = None
    /\ tpc = [t \in Threads |-> "getattr"]
    /\ tgram = [t \in Threads |-> None]
    /\ tbuild = [t \in Threads |-> None]
    /\ tloop = [t \in Threads |-> <<0, 0>>]
    /\ tret = [t \in Threads |-> None]
    /\ truns = 0

\* ------------------------------------------------------ Basis.evaluate
\* an evaluation point: a number, or not-a-number
Point(x) == [nan |-> FALSE, x |-> x]
NaN == [nan |-> TRUE, x |-> 0]
isnan(p) == p.nan
PointValues == {Point(x) : x \in Coords} \cup {NaN}
PointLists == UNION {[1..n -> PointValues] : n \in 1..MaxPoints}
Derivatives == -1..MaxDerivative

\* numpy.atleast_1d: a scalar becomes an array of one element
atleast_1d(kind, ary) == IF kind = "scalar" THEN <<ary>> ELSE ary

\* the family-specific rule, abstract in Basis: the matrix it returns
_evaluate(self, eval_points, derivative) ==
    <<self.family, domain_range(self), self.n_basis, eval_points, derivative>>

\* an evaluate that looks for NaN before it looks at the derivative
evaluate_nan_first(self, kind, eval_points, derivative) ==
    LET points == atleast_1d(kind, eval_points)
    IN IF \E k \in 1..Len(points) : isnan(points[k])
       THEN [err |-> "ValueError", msg |-> "nan", called |-> <<>>]
       ELSE IF derivative < 0
       THEN [err |-> "ValueError", msg |-> "derivative", called |-> <<>>]
       ELSE [err |-> "ok", msg |-> "", called |-> <<<<points, derivative>>>>,
             value |-> _evaluate(self, points, derivative)]

\* Basis.evaluate: [err, msg: which check raised, called: the calls of
\* _evaluate made, value: what is returned]
evaluate(self, kind, eval_points, derivative) ==
    IF derivative < 0
    THEN [err |-> "ValueError", msg |-> "derivative", called |-> <<>>]
    ELSE LET points == atleast_1d(kind, eval_points)
         IN IF \E k \in 1..Len(points) : isnan(points[k])
            THEN [err |-> "ValueError", msg |-> "nan", called |-> <<>>]
            ELSE [err |-> "ok", msg |-> "", called |-> <<<<points, derivative>>>>,
                  value |-> _evaluate(self, points, derivative)]

\* basis.evaluate(x, derivative) with one point x, or with a list of points
Evaluate ==
    \E kind \in {"scalar", "list"}, derivative \in Derivatives :
        \E eval_points \in IF kind = "scalar" THEN PointValues ELSE PointLists :
            LET r == evaluate(evBasis.v, kind, eval_points, derivative)
            IN /\ evArgs.none
               /\ evArgs' = Some([kind |-> kind, eval_points |-> eval_points,
                                  derivative |-> derivative])
               /\ evCalls' = r.called
               /\ evResult' = Some(r)
               /\ UNCHANGED evBasis
               /\ UNCHANGED notEval

IdleEval ==
    /\ evBasis = None
    /\ evArgs = None
    /\ evCalls = <<>>
    /\ evResult = None

InitEval ==
    /\ evBasis \in {Some(b) : b \in Operands}
    /\ evArgs = None
    /\ evCalls = <<>>
    /\ evResult = None

\* --------------------------------------- default_basis_of_product
\* the bases given to default_basis_of_product: sizes up to MaxProduct, on
\* the default domain or a given one
ProductOperands ==
    {Basis_init(family, d, n_basis).obj :
        family \in Families,
        d \in {None} \cup {Some(<<t>>) : t \in WellDefined},
        n_basis \in 1..MaxProduct}

\* Basis.default_basis_of_product(one, other)
Product ==
    \E one \in ProductOperands, other \in ProductOperands :
        /\ prArgs.none
        /\ prArgs' = Some([one |-> one, other |-> other])
        /\ prResult' = Some(default_basis_of_product(one, other))
        /\ UNCHANGED notProduct

IdleProduct ==
    /\ prArgs = None
    /\ prResult = None

\* ----------------------------------------------- FDataBasis.inner_product
\* inner_product reads of its operands their basis and their n_samples only:
\* an operand is [basis, n_samples]
FDShape(b, n) == [basis |-> b, n_samples |-> n]
n_basis(self) == self.basis.n_basis

\* operands on (0, 1) and on (0, MaxCoord)
FDOperands ==
    {FDShape(b, n) :
        b \in {o \in Operands : /\ o.family # "BSpline"
                                /\ domain_range(o) \in {<<<<0, 1>>>>, <<<<0, MaxCoord>>>>}},
        n \in 1..MaxSamples}

\* weights: "a FDataBasis object with only one sample"
FDWeights == {w \in FDOperands : w.n_samples = 1 /\ w.basis.family = "Monomial"}

\* Basis.to_basis: FDataBasis(self.copy(), np.identity(self.n_basis))
to_basis(self) == FDShape(copy(self), self.n_basis)

\* Basis.basis_of_product, abstract in Basis: the default policy
basis_of_product(self, other) == default_basis_of_product(self, other)

\* the rows of x * y under numpy's broadcasting, 0 when the shapes clash
BroadcastRows(n, m) ==
    IF n = m THEN n ELSE IF n = 1 THEN m ELSE IF m = 1 THEN n ELSE 0

\* FDataBasis.times(other) with an FDataBasis: the object from_data returns
times(self, other) ==
    IF ~_same_domain(domain_range(self.basis), domain_range(other.basis))
    THEN [err |-> "ValueError"]
    ELSE LET basisobj == basis_of_product(self.basis, other.basis)
             first == IF self.n_samples = 1 /\ other.n_samples > 1
                      THEN other.n_samples ELSE self.n_samples
             second == IF other.n_samples = 1 /\ self.n_samples > 1
                       THEN self.n_samples ELSE other.n_samples
             rows == BroadcastRows(first, second)
         IN IF rows = 0
            THEN [err |-> "ValueError"]
            ELSE [err |-> "ok",
                  obj |-> FDShape([family |-> basisobj.family,
                                   _domain_range |-> Some(basisobj.domain_range),
                                   n_basis |-> basisobj.n_basis,
                                   _gram_matrix_cached |-> None], rows)]

\* the shape of a @ b, <<0, 0>> when the inner dimensions differ
MatMul(a, b) == IF a[2] = b[1] THEN <<a[1], b[2]>> ELSE <<0, 0>>

\* the shape of Basis._inner_matrix(other)
InnerMatrixShape(self, other) ==
    IF Basis_eq(self, other)
    THEN <<self.n_basis, self.n_basis>>
    ELSE <<self.n_basis, other.n_basis>>

\* a dispatch that takes the matrix path on a tie as well
DispatchOnTie(self, other) ==
    IF self.n_samples * other.n_samples >= n_basis(self) * n_basis(other)
    THEN [err |-> "ok", path |-> "matrix", other |-> other,
          shape |-> MatMul(MatMul(<<self.n_samples, n_basis(self)>>,
                                  InnerMatrixShape(self.basis, other.basis)),
                           <<n_basis(other), other.n_samples>>)]
    ELSE [err |-> "ok", path |-> "integrate", other |-> other,
          shape |-> <<self.n_samples, other.n_samples>>]

\* the dispatch of inner_product once `other` is an FDataBasis
Dispatch(self, other) ==
    IF self.n_samples * other.n_samples > n_basis(self) * n_basis(other)
    THEN [err |-> "ok", path |-> "matrix", other |-> other,
          shape |-> MatMul(MatMul(<<self.n_samples, n_basis(self)>>,
                                  InnerMatrixShape(self.basis, other.basis)),
                           <<n_basis(other), other.n_samples>>)]
    ELSE [err |-> "ok", path |-> "integrate", other |-> other,
          shape |-> <<self.n_samples, other.n_samples>>]

\* FDataBasis.inner_product(other, None, None, weights): other is a Basis
\* (isBasis) or an FDataBasis, weights is None or an FDataBasis
inner_product(self, isBasis, other, weights) ==
    IF ~_same_domain(domain_range(self.basis),
                     domain_range(IF isBasis THEN other ELSE other.basis))
    THEN [err |-> "ValueError", path |-> "none"]
    ELSE LET other_ == IF isBasis THEN to_basis(other) ELSE other
             w == IF weights.none THEN [err |-> "ok", obj |-> other_]
                                  ELSE times(other_, weights.v)
         IN IF w.err # "ok"
            THEN [err |-> w.err, path |-> "none"]
            ELSE Dispatch(self, w.obj)

\* x.inner_product(other, weights=weights)
InnerProduct ==
    \E self \in FDOperands, isBasis \in BOOLEAN :
        \E other \in IF isBasis THEN {o.basis : o \in FDOperands} ELSE FDOperands :
            \E weights \in {None} \cup {Some(w) : w \in FDWeights} :
                /\ ipArgs.none
                /\ ipArgs' = Some([self |-> self, isBasis |-> isBasis,
                                   other |-> other, weights |-> weights])
                /\ ipResult' = Some(inner_product(self, isBasis, other, weights))
                /\ UNCHANGED notInner

IdleInner ==
    /\ ipArgs = None
    /\ ipResult = None

\* ------------------------------------------------ FDataBasis, by value
\* A float is the fraction <<n, d>> in lowest terms with d > 0; <<0, 0>> is
\* nan.  The model divides by no zero except in 0/0 (the mean of no rows).
Abs(x) == IF x < 0 THEN -x ELSE x

RECURSIVE GCD(_, _)
GCD(a, b) == IF b = 0 THEN a ELSE GCD(b, a % b)

Fnan == <<0, 0>>
Fisnan(x) == x[2] = 0

Frac(n, d) ==
    IF d = 0 THEN Fnan
    ELSE LET g == GCD(Abs(n), Abs(d))
             s == IF d < 0 THEN -1 ELSE 1
         IN <<(s * n) \div g, (s * d) \div g>>

Num(k) == <<k, 1>>

FAdd(x, y) ==
    IF Fisnan(x) \/ Fisnan(y) THEN Fnan
    ELSE Frac(x[1] * y[2] + y[1] * x[2], x[2] * y[2])

FSub(x, y) ==
    IF Fisnan(x) \/ Fisnan(y) THEN Fnan
    ELSE Frac(x[1] * y[2] - y[1] * x[2], x[2] * y[2])

FMul(x, y) ==
    IF Fisnan(x) \/ Fisnan(y) THEN Fnan
    ELSE Frac(x[1] * y[1], x[2] * y[2])

FDiv(x, y) ==
    IF Fisnan(x) \/ Fisnan(y) THEN Fnan
    ELSE Frac(x[1] * y[2], x[2] * y[1])

RECURSIVE FSum(_)
FSum(s) == IF s = <<>> THEN Num(0) ELSE FAdd(Head(s), FSum(Tail(s)))

\* a 2-D numpy array: its shape (rows, columns) and its rows
Matrix(r, c, a) == [shape |-> <<r, c>>, a |-> a]

\* np.atleast_2d of a scalar, of a list (1-D), of a matrix (2-D)
atleast_2d(kind, ary) ==
    IF kind = "scalar" THEN Matrix(1, 1, <<<<ary>>>>)
    ELSE IF kind = "list" THEN Matrix(1, Len(ary), <<ary>>)
    ELSE ary

\* np.transpose(np.atleast_2d(v)) and np.atleast_2d(v).reshape(-1, 1) of a
\* list v: one column
Column(v) == Matrix(Len(v), 1, [i \in 1..Len(v) |-> <<v[i]>>])

\* one dimension of the broadcast of two shapes, -1 when they clash
BroadcastDim(n, m) ==
    IF n = m THEN n ELSE IF n = 1 THEN m ELSE IF m = 1 THEN n ELSE -1

\* the entry-wise operation op on two numbers
Entrywise(op, x, y) ==
    IF op = "+" THEN FAdd(x, y)
    ELSE IF op = "-" THEN FSub(x, y)
    ELSE FMul(x, y)

\* x op y on two 2-D arrays under numpy's broadcasting; a clash is ValueError
Broadcast(op, x, y) ==
    LET r == BroadcastDim(x.shape[1], y.shape[1])
        c == BroadcastDim(x.shape[2], y.shape[2])
        at(m, i, j) == m.a[IF m.shape[1] = 1 THEN 1 ELSE i]
                          [IF m.shape[2] = 1 THEN 1 ELSE j]
    IN IF r = -1 \/ c = -1
       THEN [err |-> "ValueError"]
       ELSE [err |-> "ok",
             m |-> Matrix(r, c, [i \in 1..r |->
                                    [j \in 1..c |-> Entrywise(op, at(x, i, j), at(y, i, j))]])]

\* FDataBasis.__init__ without the check of the columns
FDataBasis_init_unchecked(basis_, kind, coefficients_, dataset_label, axes_labels, extrapolation, keepdims) ==
    [err |-> "ok",
     obj |-> [basis |-> basis_,
              coefficients |-> atleast_2d(kind, coefficients_),
              dataset_label |-> dataset_label,
              axes_labels |-> axes_labels,
              extrapolation |-> extrapolation,
              keepdims |-> keepdims]]

\* FDataBasis.__init__: the new object, or the error it raises
FDataBasis_init(basis_, kind, coefficients_, dataset_label, axes_labels, extrapolation, keepdims) ==
    LET coefficients == atleast_2d(kind, coefficients_)
    IN IF coefficients.shape[2] # basis_.n_basis
       THEN [err |-> "ValueError"]
       ELSE [err |-> "ok",
             obj |-> [basis |-> basis_,
                      coefficients |-> coefficients,
                      dataset_label |-> dataset_label,
                      axes_labels |-> axes_labels,
                      extrapolation |-> extrapolation,
                      keepdims |-> keepdims]]

n_samples(self) == self.coefficients.shape[1]

\* FDataBasis.copy(basis=..., coefficients=...): every caller in the class
\* leaves dataset_label, axes_labels, extrapolation and keepdims at None, so
\* the labels are deep copies of None and the other two are the source's
FDataBasis_copy(self, basis_, kind, coefficients_) ==
    FDataBasis_init(IF basis_.none THEN copy(self.basis) ELSE basis_.v,
                    IF coefficients_.none THEN "matrix" ELSE kind,
                    IF coefficients_.none THEN self.coefficients
                                          ELSE coefficients_.v,
                    None, None, self.extrapolation, self.keepdims)

\* a[start:stop] on the rows of a 2-D array, as Python resolves a slice
SliceIndex(i, n) == IF i < 0 THEN Max(i + n, 0) ELSE Min(i, n)

SliceRows(m, start, stop) ==
    LET s == SliceIndex(start, m.shape[1])
        t == SliceIndex(stop, m.shape[1])
        k == Max(t - s, 0)
    IN Matrix(k, m.shape[2], [i \in 1..k |-> m.a[s + i]])

\* FDataBasis.__getitem__ with an int key or a slice start:stop
__getitem__(self, kind, key) ==
    IF kind = "int"
    THEN FDataBasis_copy(self, None, "matrix",
                         Some(SliceRows(self.coefficients, key, key + 1)))
    ELSE FDataBasis_copy(self, None, "matrix",
                         Some(SliceRows(self.coefficients, key[1], key[2])))

\* column j of a 2-D array as a list
ColumnOf(m, j) == [i \in 1..m.shape[1] |-> m.a[i][j]]

\* FDataBasis.mean(weights): np.mean(axis=0) is 1-D, the weighted average
\* is given a new leading axis
mean(self, weights) ==
    LET m == self.coefficients
        n == m.shape[1]
    IN IF weights.none
       THEN FDataBasis_copy(self, None, "list",
                Some([j \in 1..m.shape[2] |-> FDiv(FSum(ColumnOf(m, j)), Num(n))]))
       ELSE LET w == weights.v
                scl == FSum([i \in 1..Len(w) |-> Num(w[i])])
            IN IF Len(w) # n THEN [err |-> "ValueError"]
               ELSE IF scl = Num(0) THEN [err |-> "ZeroDivisionError"]
               ELSE FDataBasis_copy(self, None, "matrix",
                        Some(Matrix(1, m.shape[2],
                            <<[j \in 1..m.shape[2] |->
                                FDiv(FSum([i \in 1..n |->
                                         FMul(m.a[i][j], Num(w[i]))]), scl)]>>)))

RECURSIVE np_concatenate_last_first(_)
np_concatenate_last_first(data) ==
    IF Len(data) = 1 THEN [err |-> "ok", m |-> data[1]]
    ELSE LET rest == np_concatenate_last_first(Tail(data))
         IN IF rest.err # "ok" \/ rest.m.shape[2] # data[1].shape[2]
            THEN [err |-> "ValueError"]
            ELSE [err |-> "ok",
                  m |-> Matrix(data[1].shape[1] + rest.m.shape[1],
                               data[1].shape[2], rest.m.a \o data[1].a)]

\* np.concatenate(data, axis=0) of a non-empty list of 2-D arrays
RECURSIVE np_concatenate(_)
np_concatenate(data) ==
    IF Len(data) = 1 THEN [err |-> "ok", m |-> data[1]]
    ELSE LET rest == np_concatenate(Tail(data))
         IN IF rest.err # "ok" \/ rest.m.shape[2] # data[1].shape[2]
            THEN [err |-> "ValueError"]
            ELSE [err |-> "ok",
                  m |-> Matrix(data[1].shape[1] + rest.m.shape[1],
                               data[1].shape[2], data[1].a \o rest.m.a)]

\* FDataBasis.concatenate(*others)
concatenate(self, others) ==
    IF \E k \in 1..Len(others) : ~Basis_eq(others[k].basis, self.basis)
    THEN [err |-> "ValueError"]
    ELSE LET data == <<self.coefficients>> \o
                     [k \in 1..Len(others) |-> others[k].coefficients]
             joined == np_concatenate(data)
         IN IF joined.err # "ok" THEN joined
            ELSE FDataBasis_copy(self, None, "matrix", Some(joined.m))

\* the copy a binary operation returns, or the error of its array arithmetic
CopyOf(self, basis_, r) ==
    IF r.err # "ok" THEN r
    ELSE FDataBasis_copy(self, basis_, "matrix", Some(r.m))

\* FDataBasis.times(other) with an int (kind "int") or a list of numbers
times_array(self, kind, other) ==
    LET list == IF kind = "int" THEN [i \in 1..n_samples(self) |-> other]
                                ELSE other
        coefs == Column(list)
    IN CopyOf(self, None, Broadcast("*", self.coefficients, coefs))

\* Basis._add_same_basis and Basis._sub_same_basis: (self.copy(), coefs)
_add_same_basis(self, coefs1, coefs2) ==
    [basis |-> copy(self), coefs |-> Broadcast("+", coefs1, coefs2)]

_sub_same_basis(self, coefs1, coefs2) ==
    [basis |-> copy(self), coefs |-> Broadcast("-", coefs1, coefs2)]

\* coefs[:, 0] = coefs[:, 0] op constant on a copy of coefs: the constant is
\* a scalar or a list, and the sum must fit the column it is stored into
ColumnUpdate(op, coefs, kind, constant) ==
    LET n == coefs.shape[1]
        at(i) == IF kind = "scalar" THEN constant
                 ELSE constant[IF Len(constant) = 1 THEN 1 ELSE i]
    IN IF kind = "list" /\ Len(constant) # n /\ Len(constant) # 1
       THEN [err |-> "ValueError"]
       ELSE [err |-> "ok",
             m |-> Matrix(n, coefs.shape[2],
                     [i \in 1..n |->
                        [j \in 1..coefs.shape[2] |->
                           IF j = 1 THEN Entrywise(op, coefs.a[i][1], at(i))
                                    ELSE coefs.a[i][j]]])]

\* Basis._add_constant and Basis._sub_constant
_add_constant(self, coefs, kind, constant) ==
    [basis |-> copy(self), coefs |-> ColumnUpdate("+", coefs, kind, constant)]

_sub_constant(self, coefs, kind, other) ==
    [basis |-> copy(self), coefs |-> ColumnUpdate("-", coefs, kind, other)]

_mul_constant_first_column(self, coefs, kind, other) ==
    [basis |-> copy(self), coefs |-> ColumnUpdate("*", coefs, kind, other)]

\* Basis._mul_constant: coefs * np.atleast_2d(other).reshape(-1, 1)
_mul_constant(self, coefs, kind, other) ==
    [basis |-> copy(self),
     coefs |-> Broadcast("*", coefs,
                         Column(IF kind = "scalar" THEN <<other>> ELSE other))]

\* FDataBasis.__add__: other is an FDataBasis (kind "fd"), a scalar or a list
__add__(self, kind, other) ==
    IF kind = "fd"
    THEN IF ~Basis_eq(self.basis, other.basis)
         THEN [err |-> "NotImplementedError"]
         ELSE LET r == _add_same_basis(self.basis, self.coefficients,
                                       other.coefficients)
              IN CopyOf(self, Some(r.basis), r.coefs)
    ELSE LET r == _add_constant(self.basis, self.coefficients, kind, other)
         IN CopyOf(self, Some(r.basis), r.coefs)

\* FDataBasis.__sub__
__sub__(self, kind, other) ==
    IF kind = "fd"
    THEN IF ~Basis_eq(self.basis, other.basis)
         THEN [err |-> "NotImplementedError"]
         ELSE LET r == _sub_same_basis(self.basis, self.coefficients,
                                       other.coefficients)
              IN CopyOf(self, Some(r.basis), r.coefs)
    ELSE LET r == _sub_constant(self.basis, self.coefficients, kind, other)
         IN CopyOf(self, Some(r.basis), r.coefs)

\* FDataBasis.__mul__
__mul__(self, kind, other) ==
    IF kind = "fd"
    THEN [err |-> "NotImplementedError"]
    ELSE LET r == _mul_constant(self.basis, self.coefficients, kind, other)
         IN CopyOf(self, Some(r.basis), r.coefs)

\* FDataBasis.__truediv__: self * (1 / np.array(other))
__truediv__(self, kind, other) ==
    __mul__(self, kind,
            IF kind = "scalar" THEN FDiv(Num(1), other)
            ELSE [i \in 1..Len(other) |-> FDiv(Num(1), other[i])])

\* the bases of the FDataBasis objects followed: two families on (0, 1)
FDBases ==
    {o \in Operands : o.family # "BSpline" /\ domain_range(o) = <<<<0, 1>>>>}

\* coefficient arguments of the constructor: a number, a list, a matrix
CoefValues == {Num(0), Num(1)}
CoefRows(c) ==
    {[j \in 1..c |-> v] : v \in CoefValues}
        \cup {[j \in 1..c |-> IF j = 1 THEN Num(1) ELSE Num(0)]}
CoefLists == UNION {CoefRows(c) : c \in 0..MaxNBasis}
\* a first row of each kind above all-ones rows
CoefMatrices ==
    UNION {{Matrix(r, c, [i \in 1..r |-> IF i = 1 THEN row ELSE [j \in 1..c |-> Num(1)]]) :
               row \in CoefRows(c)} :
              r \in 1..MaxSamples, c \in 1..MaxNBasis}
Labels == {None, Some("curves")}

\* the numbers and per-sample vectors given to times and to the operators
Scalars == {Num(-1), Num(2)}
Vectors == {[i \in 1..n |-> s] : n \in 0..MaxSamples, s \in Scalars}

ones(r, c) == Matrix(r, c, [i \in 1..r |-> [j \in 1..c |-> Num(1)]])

\* the objects given as the other operand of concatenate, + and -
FDOthers ==
    {FDataBasis_init(b, "matrix", ones(r, b.n_basis), None, None, None, FALSE).obj :
        b \in FDBases, r \in 1..MaxSamples}

\* the constructor returned or raised
FDMake(args, r) ==
    /\ fdCall' = [op |-> "init", args |-> args, err |-> r.err]
    /\ fd' = IF r.err = "ok" THEN Some(r.obj) ELSE fd
    /\ fdOps' = 0
    /\ UNCHANGED notFData

\* an operation returned a new object, now the one held, or raised
FDReturn(op, r) ==
    /\ ~fd.none
    /\ fdOps < MaxOps
    /\ fdCall' = [op |-> op, args |-> <<>>, err |-> r.err]
    /\ fd' = IF r.err = "ok" THEN Some(r.obj) ELSE fd
    /\ fdOps' = fdOps + 1
    /\ UNCHANGED notFData

\* fd = FDataBasis(basis, coefficients, dataset_label=..., axes_labels=...)
FDConstruct ==
    /\ fd.none
    /\ \E b \in FDBases, label \in Labels :
        \/ \E x \in CoefValues :
             FDMake([basis |-> b, kind |-> "scalar", coefficients |-> x],
                    FDataBasis_init(b, "scalar", x, label, label, None, FALSE))
        \/ \E l \in CoefLists :
             FDMake([basis |-> b, kind |-> "list", coefficients |-> l],
                    FDataBasis_init(b, "list", l, label, label, None, FALSE))
        \/ \E m \in CoefMatrices :
             FDMake([basis |-> b, kind |-> "matrix", coefficients |-> m],
                    FDataBasis_init(b, "matrix", m, label, label, None, FALSE))

\* fd = fd.copy()
FDCopy == FDReturn("copy", FDataBasis_copy(fd.v, None, "matrix", None))

\* fd = fd[key]
GetItem ==
    \/ \E key \in -MaxSamples..MaxSamples :
         FDReturn("getitem", __getitem__(fd.v, "int", key))
    \/ \E start \in 0..MaxSamples, stop \in 0..MaxSamples :
         FDReturn("getitem", __getitem__(fd.v, "slice", <<start, stop>>))

\* fd = fd.mean(weights)
Mean ==
    \/ FDReturn("mean", mean(fd.v, None))
    \/ \E n \in 0..MaxSamples : \E w \in [1..n -> 1..2] :
         FDReturn("mean", mean(fd.v, Some(w)))

\* fd = fd.concatenate(*others)
Concatenate ==
    \E others \in {<<>>} \cup {<<o>> : o \in FDOthers}
                         \cup {<<o, o>> : o \in {p \in FDOthers : n_samples(p) = 1}} :
        FDReturn("concatenate", concatenate(fd.v, others))

\* fd = fd.times(other) with an int or a list
Times ==
    \/ \E k \in Scalars : FDReturn("times", times_array(fd.v, "int", k))
    \/ \E v \in Vectors : FDReturn("times", times_array(fd.v, "list", v))

\* fd = fd + other
Add ==
    \/ \E o \in FDOthers : FDReturn("add", __add__(fd.v, "fd", o))
    \/ \E k \in Scalars : FDReturn("add", __add__(fd.v, "scalar", k))
    \/ \E v \in Vectors : FDReturn("add", __add__(fd.v, "list", v))

\* fd = fd - other
Sub ==
    \/ \E o \in FDOthers : FDReturn("sub", __sub__(fd.v, "fd", o))
    \/ \E k \in Scalars : FDReturn("sub", __sub__(fd.v, "scalar", k))
    \/ \E v \in Vectors : FDReturn("sub", __sub__(fd.v, "list", v))

\* fd = fd * other
Mul ==
    \/ \E o \in FDOthers : FDReturn("mul", __mul__(fd.v, "fd", o))
    \/ \E k \in Scalars : FDReturn("mul", __mul__(fd.v, "scalar", k))
    \/ \E v \in Vectors : FDReturn("mul", __mul__(fd.v, "list", v))

\* fd = fd / other
TrueDiv ==
    \/ \E k \in Scalars : FDReturn("truediv", __truediv__(fd.v, "scalar", k))
    \/ \E v \in Vectors : FDReturn("truediv", __truediv__(fd.v, "list", v))

IdleFData ==
    /\ fd = None
    /\ fdCall = [op |-> "none", args |-> <<>>, err |-> "ok"]
    /\ fdOps = 0

\* ------------------------------------------------------ FDataBasis.shift
\* constants.N_POINTS_COARSE_MESH
N_POINTS_COARSE_MESH == 201

linspace_no_endpoint(start, stop, num) ==
    [k \in 1..num |-> FAdd(Num(start), Frac((k - 1) * (stop - start), num))]

\* np.linspace(start, stop, num)
linspace(start, stop, num) ==
    [k \in 1..num |-> FAdd(Num(start), Frac((k - 1) * (stop - start), num - 1))]

RECURSIVE np_min(_)
np_min(s) == IF Len(s) = 1 THEN s[1] ELSE Min(s[1], np_min(Tail(s)))

RECURSIVE np_max(_)
np_max(s) == IF Len(s) = 1 THEN s[1] ELSE Max(s[1], np_max(Tail(s)))

\* the value FData.evaluate gives for sample i at the point x
EvaluateAt(i, x) == <<i, x>>

\* the least-squares projection FDataBasis.from_data(data_matrix,
\* sample_points, basis) is asked for
from_data(data_matrix, sample_points, basis_) ==
    [data_matrix |-> data_matrix, sample_points |-> sample_points,
     basis |-> basis_]

\* a <= x, x <= b on a float and an integer bound
FGeq(x, a) == x[1] >= a * x[2]
FLeq(x, b) == x[1] <= b * x[2]

\* shift with a scalar: all the curves with the same shift
shift_scalar(self, shifts, eval_points) ==
    LET dom == domain_range(self.basis)[1]
        _basis == rescale(self.basis, "tuple",
                          Some(<<dom[1] + shifts, dom[2] + shifts>>))
    IN IF _basis.err # "ok"
       THEN [err |-> _basis.err, msg |-> "interval", trace |-> <<"rescale">>]
       ELSE [err |-> "ok", msg |-> "",
             trace |-> <<"rescale", "evaluate", "from_data">>,
             value |-> from_data(
                 [i \in 1..n_samples(self) |->
                     [k \in 1..Len(eval_points) |-> EvaluateAt(i, eval_points[k])]],
                 [k \in 1..Len(eval_points) |-> FAdd(eval_points[k], Num(shifts))],
                 _basis.obj)]

\* a per-sample shift that restricts the domain and keeps every grid point
shift_vector_unfiltered(self, shifts, restrict_domain, eval_points_) ==
    LET dom == domain_range(self.basis)[1]
        a == dom[1] - Min(np_min(shifts), 0)
        b == dom[2] - Max(np_max(shifts), 0)
        domain == IF restrict_domain THEN <<a, b>> ELSE dom
        eval_points == eval_points_
        points_shifted == [i \in 1..n_samples(self) |->
                             [k \in 1..Len(eval_points) |->
                                FAdd(eval_points[k], Num(shifts[i]))]]
        _data_matrix == [i \in 1..n_samples(self) |->
                           [k \in 1..Len(eval_points) |->
                              EvaluateAt(i, points_shifted[i][k])]]
        _basis == rescale(self.basis, "tuple", Some(domain))
    IN IF _basis.err # "ok"
       THEN [err |-> _basis.err, msg |-> "interval",
             trace |-> <<"evaluate", "rescale">>]
       ELSE [err |-> "ok", msg |-> "",
             trace |-> <<"evaluate", "rescale", "from_data">>,
             value |-> from_data(_data_matrix, eval_points, _basis.obj)]

\* shift with one shift per sample, once the length has been accepted
shift_vector(self, shifts, restrict_domain, eval_points_) ==
    LET dom == domain_range(self.basis)[1]
        a == dom[1] - Min(np_min(shifts), 0)
        b == dom[2] - Max(np_max(shifts), 0)
        domain == IF restrict_domain THEN <<a, b>> ELSE dom
        eval_points == IF restrict_domain
                       THEN SelectSeq(eval_points_,
                                      LAMBDA x : FGeq(x, a) /\ FLeq(x, b))
                       ELSE eval_points_
        points_shifted == [i \in 1..n_samples(self) |->
                             [k \in 1..Len(eval_points) |->
                                FAdd(eval_points[k], Num(shifts[i]))]]
        _data_matrix == [i \in 1..n_samples(self) |->
                           [k \in 1..Len(eval_points) |->
                              EvaluateAt(i, points_shifted[i][k])]]
        _basis == rescale(self.basis, "tuple", Some(domain))
    IN IF _basis.err # "ok"
       THEN [err |-> _basis.err, msg |-> "interval",
             trace |-> <<"evaluate", "rescale">>]
       ELSE [err |-> "ok", msg |-> "",
             trace |-> <<"evaluate", "rescale", "from_data">>,
             value |-> from_data(_data_matrix, eval_points, _basis.obj)]

\* the grid the function is discretized on
ShiftGrid(self, eval_points) ==
    IF eval_points.none
    THEN LET dom == domain_range(self.basis)[1]
             nfine == Max(n_basis(self) * 10 + 1, N_POINTS_COARSE_MESH)
         IN linspace(dom[1], dom[2], nfine)
    ELSE eval_points.v

\* a shift that rejects only a vector that is too short
shift_short_only(self, kind, shifts, restrict_domain, eval_points) ==
    IF kind = "scalar"
    THEN shift_scalar(self, shifts, ShiftGrid(self, eval_points))
    ELSE IF Len(shifts) < n_samples(self)
    THEN [err |-> "ValueError", msg |-> "shifts vector", trace |-> <<>>]
    ELSE shift_vector(self, shifts, restrict_domain, ShiftGrid(self, eval_points))

\* FDataBasis.shift(shifts, restrict_domain=..., eval_points=...): what it
\* raises or returns and, in trace, the evaluations, rescalings and
\* projections it performed on the way
shift(self, kind, shifts, restrict_domain, eval_points) ==
    IF kind = "scalar"
    THEN shift_scalar(self, shifts, ShiftGrid(self, eval_points))
    ELSE IF Len(shifts) # n_samples(self)
    THEN [err |-> "ValueError", msg |-> "shifts vector", trace |-> <<>>]
    ELSE shift_vector(self, shifts, restrict_domain, ShiftGrid(self, eval_points))

\* the objects shifted: curves on (0, b)
ShiftSources ==
    {FDataBasis_init(o, "matrix", ones(r, o.n_basis), None, None, None, FALSE).obj :
        o \in {o \in Operands : o.family # "BSpline" /\ domain_range(o)[1][1] = 0},
        r \in 1..MaxSamples}

ShiftValues == -MaxShift..MaxShift
\* per-sample shifts: every vector of up to n_samples entries, and one that
\* is longer than any source
ShiftVectors ==
    UNION {[1..n -> ShiftValues] : n \in 0..MaxSamples}
        \cup {[i \in 1..MaxSamples + 1 |-> 0]}

EvalPointsArgs == {None, Some(<<Num(0), Frac(1, 2), Num(1)>>)}

\* shSelf.shift(shifts, restrict_domain=..., eval_points=...)
Shift ==
    \E restrict_domain \in BOOLEAN, eval_points \in EvalPointsArgs :
        \/ \E s \in ShiftValues :
            /\ shArgs.none
            /\ shArgs' = Some([self |-> shSelf, kind |-> "scalar", shifts |-> s,
                               restrict_domain |-> restrict_domain,
                               eval_points |-> eval_points])
            /\ shResult' = Some(shift(shSelf, "scalar", s, restrict_domain,
                                      eval_points))
            /\ UNCHANGED shSelf
            /\ UNCHANGED notShift
        \/ \E v \in ShiftVectors :
            /\ shArgs.none
            /\ shArgs' = Some([self |-> shSelf, kind |-> "list", shifts |-> v,
                               restrict_domain |-> restrict_domain,
                               eval_points |-> eval_points])
            /\ shResult' = Some(shift(shSelf, "list", v, restrict_domain,
                                      eval_points))
            /\ UNCHANGED shSelf
            /\ UNCHANGED notShift

IdleShift ==
    /\ shSelf = None
    /\ shArgs = None
    /\ shResult = None

InitShift ==
    /\ shSelf \in ShiftSources
    /\ shArgs = None
    /\ shResult = None


\* ------------------------------------- FDataBasis operations, one call
\* Basis._derivative(coefs, order), abstract in Basis: the family's rule
\* gives a basis and a matrix of the same shape, here on the same basis with
\* entry (c, order) standing for the transformed coefficient
_derivative(self, coefs, order) ==
    [basis |-> self,
     coefs |-> Matrix(coefs.shape[1], coefs.shape[2],
                      [i \in 1..coefs.shape[1] |->
                          [j \in 1..coefs.shape[2] |->
                              <<coefs.a[i][j][1], coefs.a[i][j][2], order>>]])]

\* FDataBasis.derivative(order): rule counts the calls of Basis._derivative
derivative(self, order) ==
    IF order < 0 THEN [err |-> "ValueError", rule |-> 0]
    ELSE IF order = 0
    THEN LET r == FDataBasis_copy(self, None, "matrix", None)
         IN [err |-> r.err, obj |-> r.obj, rule |-> 0]
    ELSE LET d == _derivative(self.basis, self.coefficients, order)
             r == FDataBasis_init(d.basis, "matrix", d.coefs, None, None, None, FALSE)
         IN [err |-> r.err, obj |-> r.obj, rule |-> 1]

\* dataset_label and axes_labels, extrapolation, keepdims of the objects an
\* operation is called on: none set, the labels set, the other two set
OpSettings ==
    {<<None, None, FALSE>>, <<Some("curves"), None, FALSE>>,
     <<None, Some("periodic"), TRUE>>}

\* the objects an operation is called on
OpSources ==
    {FDataBasis_init(x[1], "matrix", x[2], s[1], s[1], s[2], s[3]).obj :
        x \in {y \in FDBases \X CoefMatrices : y[2].shape[2] = y[1].n_basis},
        s \in OpSettings}

\* coefficient matrices of the other operand: those of CoefMatrices and
\* the ones whose first row is the last unit row
OpMatrices ==
    CoefMatrices \cup
    {Matrix(r, c, [i \in 1..r |-> [j \in 1..c |-> IF i > 1 \/ j = c THEN Num(1) ELSE Num(0)]]) :
        r \in 1..MaxSamples, c \in 1..MaxNBasis}

\* the objects given as the other operand
OpOthers ==
    {FDataBasis_init(x[1], "matrix", x[2], None, None, None, FALSE).obj :
        x \in {y \in FDBases \X OpMatrices : y[2].shape[2] = y[1].n_basis}}

\* the call returned or raised; the operations read their operands only
OpCall(op, kind, other, r) ==
    /\ opArgs.none
    /\ opArgs' = Some([op |-> op, self |-> opSelf, kind |-> kind, other |-> other])
    /\ opResult' = Some(r)
    /\ UNCHANGED opSelf
    /\ UNCHANGED notOp

\* opSelf.derivative(order)
Derivative ==
    \E order \in Derivatives :
        OpCall("derivative", "int", order, derivative(opSelf, order))

\* opSelf + other
OpAdd ==
    \/ \E o \in OpOthers : OpCall("add", "fd", o, __add__(opSelf, "fd", o))
    \/ \E k \in Scalars : OpCall("add", "scalar", k, __add__(opSelf, "scalar", k))

\* opSelf - other
OpSub ==
    \/ \E o \in OpOthers : OpCall("sub", "fd", o, __sub__(opSelf, "fd", o))
    \/ \E k \in Scalars : OpCall("sub", "scalar", k, __sub__(opSelf, "scalar", k))

\* opSelf * other
OpMul ==
    \/ \E o \in OpOthers : OpCall("mul", "fd", o, __mul__(opSelf, "fd", o))
    \/ \E k \in Scalars : OpCall("mul", "scalar", k, __mul__(opSelf, "scalar", k))
    \/ \E v \in Vectors : OpCall("mul", "list", v, __mul__(opSelf, "list", v))

\* opSelf.concatenate(*others)
OpConcatenate ==
    \E others \in {<<>>} \cup {<<o>> : o \in OpOthers}
                         \cup {<<o, p>> : o \in FDOthers, p \in OpOthers} :
        OpCall("concatenate", "fds", others, concatenate(opSelf, others))

\* opSelf[key] with an int key
OpGetItem ==
    \E key \in (-MaxSamples)..MaxSamples :
        OpCall("getitem", "int", key, __getitem__(opSelf, "int", key))

IdleOp ==
    /\ opSelf = None
    /\ opArgs = None
    /\ opResult = None

InitOp ==
    /\ opSelf \in OpSources
    /\ opArgs = None
    /\ opResult = None

\* --------------------------------- times of two FDataBasis, by value
BASIS_MIN_FACTOR == 10

\* np.repeat(a, repeats, axis=0): each row repeats times, in place
np_repeat(m, repeats) ==
    Matrix(m.shape[1] * repeats, m.shape[2],
           [i \in 1..(m.shape[1] * repeats) |-> m.a[((i - 1) \div repeats) + 1]])

\* one.evaluate(evalarg): a row of values for each sample
evaluate_rows(one, evalarg) ==
    [i \in 1..n_samples(one) |->
        [k \in 1..Len(evalarg) |-> EvaluateAt(one.coefficients.a[i], evalarg[k])]]

times_fd_first_of_other(self, other) ==
    IF ~_same_domain(domain_range(self.basis), domain_range(other.basis))
    THEN [err |-> "ValueError", msg |-> "The functions domains are different."]
    ELSE LET basisobj == basis_of_product(self.basis, other.basis)
             neval == Max(BASIS_MIN_FACTOR * Max(self.basis.n_basis, other.basis.n_basis) + 1,
                          N_POINTS_COARSE_MESH)
             left == domain_range(self.basis)[1][1]
             right == domain_range(self.basis)[1][2]
             evalarg == linspace(left, right, neval)
             x == evaluate_rows(self, evalarg)
             y == evaluate_rows(other, evalarg)
         IN [err |-> "ok", msg |-> "",
             value |-> from_data([i \in 1..Max(Len(x), Len(y)) |->
                                     [k \in 1..neval |->
                                        <<x[IF Len(x) = 1 THEN 1 ELSE i][k], y[1][k]>>]],
                                 evalarg, basisobj)]

\* FDataBasis.times(other) with an FDataBasis: entry (i, k) of fdarray is the
\* pair of the factors first and second have at point k for sample i
times_fd(self, other) ==
    IF ~_same_domain(domain_range(self.basis), domain_range(other.basis))
    THEN [err |-> "ValueError", msg |-> "The functions domains are different."]
    ELSE LET basisobj == basis_of_product(self.basis, other.basis)
             neval == Max(BASIS_MIN_FACTOR * Max(self.basis.n_basis, other.basis.n_basis) + 1,
                          N_POINTS_COARSE_MESH)
             left == domain_range(self.basis)[1][1]
             right == domain_range(self.basis)[1][2]
             evalarg == linspace(left, right, neval)
             first == FDataBasis_copy(self, None, "matrix",
                         Some(IF n_samples(self) = 1 /\ n_samples(other) > 1
                              THEN np_repeat(self.coefficients, n_samples(other))
                              ELSE self.coefficients)).obj
             second == FDataBasis_copy(other, None, "matrix",
                         Some(IF n_samples(other) = 1 /\ n_samples(self) > 1
                              THEN np_repeat(other.coefficients, n_samples(self))
                              ELSE other.coefficients)).obj
             x == evaluate_rows(first, evalarg)
             y == evaluate_rows(second, evalarg)
             rows == BroadcastDim(Len(x), Len(y))
         IN IF rows = -1
            THEN [err |-> "ValueError", msg |-> "operands could not be broadcast together"]
            ELSE [err |-> "ok", msg |-> "",
                  value |-> from_data([i \in 1..rows |->
                                          [k \in 1..neval |->
                                             <<x[IF Len(x) = 1 THEN 1 ELSE i][k],
                                               y[IF Len(y) = 1 THEN 1 ELSE i][k]>>]],
                                      evalarg, basisobj)]

\* the coefficients of an operand: row i holds the number sign * i throughout
TimesCoefficients(r, c, sign) ==
    Matrix(r, c, [i \in 1..r |-> [j \in 1..c |-> Num(sign * i)]])

\* the first operand: on (0, 1), of few or of many basis functions
TimesSelves ==
    {FDataBasis_init(b, "matrix", TimesCoefficients(r, b.n_basis, 1), None, None, None, FALSE).obj :
        b \in {Basis_init(family, Some(<<<<0, 1>>>>), n).obj :
                   family \in Families \ {"BSpline"}, n \in {1, MaxGridBasis}},
        r \in 1..MaxSamples}

\* the second operand: on (0, 1) or on another domain
TimesOthers ==
    {FDataBasis_init(b, "matrix", TimesCoefficients(r, b.n_basis, -1), None, None, None, FALSE).obj :
        b \in {Basis_init(family, Some(<<<<0, t>>>>), n).obj :
                   family \in Families \ {"BSpline"}, t \in {1, MaxCoord},
                   n \in (1..MaxNBasis) \cup {MaxGridBasis}},
        r \in 1..MaxSamples}

\* self.times(other)
TimesFD ==
    \E self \in TimesSelves, other \in TimesOthers :
        /\ tmArgs.none
        /\ tmArgs' = Some([self |-> self, other |-> other])
        /\ tmResult' = Some(times_fd(self, other))
        /\ UNCHANGED notTimes

IdleTimes ==
    /\ tmArgs = None
    /\ tmResult = None

\* ------------------------------------------- shift_registration
\* the error _check_extrapolation raises
IncorrectExt == "Incorrect value of ext, should be 'default', 'basis', 'periodic' or 'slice'."

_check_extrapolation_or_slice(fd_, ext) ==
    LET e == IF ext = "default" \/ ext = "0" THEN fd_.default_extrapolation ELSE ext
    IN IF e = "basis" \/ e = "1"
       THEN [err |-> "ok", msg |-> "", periodic |-> TRUE, periodic_ext |-> FALSE]
       ELSE IF e = "periodic" \/ e = "2"
       THEN [err |-> "ok", msg |-> "", periodic |-> TRUE, periodic_ext |-> TRUE]
       ELSE [err |-> "ok", msg |-> "", periodic |-> FALSE, periodic_ext |-> FALSE]

\* _check_extrapolation(fd, ext): an int argument is written by its digit
_check_extrapolation(fd_, ext) ==
    LET e == IF ext = "default" \/ ext = "0" THEN fd_.default_extrapolation ELSE ext
    IN IF e = "basis" \/ e = "1"
       THEN [err |-> "ok", msg |-> "", periodic |-> TRUE, periodic_ext |-> FALSE]
       ELSE IF e = "periodic" \/ e = "2"
       THEN [err |-> "ok", msg |-> "", periodic |-> TRUE, periodic_ext |-> TRUE]
       ELSE IF e = "slice" \/ e = "3"
       THEN [err |-> "ok", msg |-> "", periodic |-> FALSE, periodic_ext |-> FALSE]
       ELSE [err |-> "ValueError", msg |-> IncorrectExt,
             periodic |-> FALSE, periodic_ext |-> FALSE]

\* numpy.zeros(n)
np_zeros(n) == [i \in 1..n |-> Num(0)]

\* x < y, x <= y on floats: False when either is nan
FLt(x, y) == ~Fisnan(x) /\ ~Fisnan(y) /\ x[1] * y[2] < y[1] * x[2]
FLe(x, y) == ~Fisnan(x) /\ ~Fisnan(y) /\ x[1] * y[2] <= y[1] * x[2]

\* numpy.abs
FAbs(x) == <<Abs(x[1]), x[2]>>

\* numpy.min and numpy.max of a non-empty float array: nan when one is in it
FMin(s) ==
    IF \E i \in 1..Len(s) : Fisnan(s[i]) THEN Fnan
    ELSE s[CHOOSE i \in 1..Len(s) : \A j \in 1..Len(s) : FLe(s[i], s[j])]

FMax(s) ==
    IF \E i \in 1..Len(s) : Fisnan(s[i]) THEN Fnan
    ELSE s[CHOOSE i \in 1..Len(s) : \A j \in 1..Len(s) : FLe(s[j], s[i])]

\* Python's min(x, 0) and max(x, 0): x unless 0 < x, x unless 0 > x
py_min0(x) == IF FLt(Num(0), x) THEN Num(0) ELSE x
py_max0(x) == IF FLt(x, Num(0)) THEN Num(0) ELSE x

\* the initial estimation of the shifts: delta, and whether delta is the
\* caller's array itself (numpy.asarray of an array of floats)
InitialDelta(fd_, initial) ==
    IF Len(initial.v) = 0
    THEN [err |-> "ok", delta |-> np_zeros(fd_.nsamples), aliased |-> FALSE]
    ELSE IF Len(initial.v) # fd_.nsamples
    THEN [err |-> "ValueError", delta |-> <<>>, aliased |-> FALSE]
    ELSE [err |-> "ok", delta |-> initial.v, aliased |-> initial.kind = "array"]

\* the mesh of the call: tfine is left at its default
FineMesh(fd_) ==
    linspace(fd_.domain_range[1], fd_.domain_range[2],
             Max(fd_.nbasis * 10 + 1, 201))

\* tfine_tmp[domain]: the points of the whole mesh in
\* [domain_range[0] - a, domain_range[1] - b]
RestrictedMesh(fd_, tfine_tmp, delta) ==
    LET a == py_min0(FMin(delta))
        b == py_max0(FMax(delta))
        lo == FSub(Num(fd_.domain_range[1]), a)
        hi == FSub(Num(fd_.domain_range[2]), b)
    IN SelectSeq(tfine_tmp, LAMBDA t : FLe(lo, t) /\ FLe(t, hi))

DomainColumnsOfMesh(fd_, tfine_tmp, delta) ==
    LET a == py_min0(FMin(delta))
        b == py_max0(FMax(delta))
        lo == FSub(Num(fd_.domain_range[1]), a)
        hi == FSub(Num(fd_.domain_range[2]), b)
    IN SelectSeq([k \in 1..Len(tfine_tmp) |-> k],
                 LAMBDA k : /\ FLe(lo, tfine_tmp[k]) /\ FLe(tfine_tmp[k], hi)
                            /\ \E j \in 1..Len(rgMesh) : rgMesh[j] = tfine_tmp[k])

\* the columns the mask domain selects in D1x_tmp[:, domain]
DomainColumns(fd_, tfine_tmp, delta) ==
    LET a == py_min0(FMin(delta))
        b == py_max0(FMax(delta))
        lo == FSub(Num(fd_.domain_range[1]), a)
        hi == FSub(Num(fd_.domain_range[2]), b)
    IN SelectSeq([k \in 1..Len(tfine_tmp) |-> k],
                 LAMBDA k : FLe(lo, tfine_tmp[k]) /\ FLe(tfine_tmp[k], hi))

\* scipy.integrate.trapz(numpy.square(D1x), tfine, axis=1), asked for
trapz_square(cols, tfine) == [D1x |-> cols, n |-> Len(tfine)]

WhileTestOffByOne(max_diff, tol, iter, maxiter) ==
    FLt(tol, max_diff) /\ iter <= maxiter

\* while max_diff > tol and iter < maxiter
WhileTest(max_diff, tol, iter, maxiter) ==
    FLt(tol, max_diff) /\ iter < maxiter

\* fd.shift(delta, ext=ext, tfine=tfine), asked of the object
fd_shift(delta, ext, tfine) ==
    [kind |-> "shift", delta |-> delta, ext |-> ext, tfine |-> tfine]

\* the sample of curves: its size, basis and default extrapolation
RegSamples ==
    {[nsamples |-> x[1], nbasis |-> 1, domain_range |-> <<0, 1>>,
      default_extrapolation |-> x[2]] :
        x \in {<<1, "periodic">>, <<MaxSamples, "slice">>, <<MaxSamples, "none">>}}

\* ext arguments: the names, a name that is none of them, the ints 0 to 4
RegExt == {"default", "basis", "periodic", "slice", "other", "0", "1", "2", "3", "4"}

\* the tolerance of the calls
RegTol == Frac(1, 100)

\* initial arguments for n samples: the empty list, lists of floats (no
\* shift, a shift as long as the domain), an array of floats, a list one
\* too long
RegInitials(n) ==
    {[kind |-> "list", v |-> <<>>],
     [kind |-> "list", v |-> [i \in 1..n |-> Num(0)]],
     [kind |-> "list", v |-> [i \in 1..n |-> Num(1)]],
     [kind |-> "array", v |-> [i \in 1..n |-> Frac(1, 2)]],
     [kind |-> "list", v |-> [i \in 1..(n + 1) |-> Num(0)]]}

\* the values alpha * d1_regsse / d2_regsse can take: every curve the same
\* update or the first curve alone, and nan where d2_regsse is 0
RegUpdates(n) ==
    {[i \in 1..n |-> u] : u \in {Num(0), RegTol, Frac(1, 2), Frac(-1, 2), Fnan}}
        \cup {[i \in 1..n |-> IF i = 1 THEN u ELSE Num(0)] :
                 u \in {RegTol, Frac(1, 2), Frac(-1, 2)}}

\* shift_registration(fd, maxiter, tol, ext, initial=..., shifts_array=...)
\* up to the while
RegCall ==
    \E fd_ \in RegSamples, maxiter \in 0..MaxIter, ext \in RegExt,
       shifts_array \in BOOLEAN :
      \E initial \in RegInitials(fd_.nsamples) :
        LET d == InitialDelta(fd_, initial)
            e == _check_extrapolation(fd_, ext)
            ok == d.err = "ok" /\ e.err = "ok"
        IN /\ rgPc = "idle"
           /\ rgArgs' = Some([fd |-> fd_, maxiter |-> maxiter, tol |-> RegTol,
                              ext |-> ext, initial |-> initial,
                              aliased |-> d.aliased,
                              shifts_array |-> shifts_array])
           /\ rgInitial' = initial.v
           /\ rgPc' = IF ok THEN "loop" ELSE "raised"
           /\ rgDelta' = d.delta
           /\ rgMesh' = IF d.err = "ok" THEN FineMesh(fd_) ELSE <<>>
           /\ rgWhole' = rgMesh'
           /\ rgCols' = [k \in 1..Len(rgMesh') |-> k]
           /\ rgD2' = trapz_square(rgCols', rgMesh')
           /\ rgPeriodic' = <<e.periodic, e.periodic_ext>>
           /\ rgMaxDiff' = FAdd(RegTol, Num(1))
           /\ rgIter' = 0
           /\ rgResult' = IF d.err # "ok" THEN Some([err |-> "ValueError", msg |-> "initial"])
                          ELSE IF e.err # "ok" THEN Some([err |-> "ValueError", msg |-> e.msg])
                          ELSE None
           /\ UNCHANGED notReg

\* one pass of the body of the while
RegIterate ==
    /\ rgPc = "loop"
    /\ WhileTest(rgMaxDiff, rgArgs.v.tol, rgIter, rgArgs.v.maxiter)
    /\ LET fd_ == rgArgs.v.fd
           tfine == IF rgPeriodic[1] THEN rgMesh ELSE RestrictedMesh(fd_, rgWhole, rgDelta)
       IN \E delta_aux \in IF Len(tfine) < 2 THEN {[i \in 1..fd_.nsamples |-> Fnan]}
                           ELSE RegUpdates(fd_.nsamples) :
            LET delta == [i \in 1..fd_.nsamples |-> FSub(rgDelta[i], delta_aux[i])]
            IN /\ rgMesh' = tfine
               /\ rgCols' = IF rgPeriodic[1] THEN rgCols
                                             ELSE DomainColumns(fd_, rgWhole, rgDelta)
               /\ rgD2' = IF rgPeriodic[1] THEN rgD2 ELSE trapz_square(rgCols', tfine)
               /\ rgDelta' = delta
               /\ rgInitial' = IF rgArgs.v.aliased THEN delta ELSE rgInitial
               /\ rgMaxDiff' = FMax([i \in 1..fd_.nsamples |-> FAbs(delta_aux[i])])
               /\ rgIter' = rgIter + 1
    /\ UNCHANGED <<rgPc, rgArgs, rgWhole, rgPeriodic, rgResult>>
    /\ UNCHANGED notReg

\* the while is left: return delta, or fd.shift(delta, ext=ext, tfine=tfine)
RegReturn ==
    /\ rgPc = "loop"
    /\ ~WhileTest(rgMaxDiff, rgArgs.v.tol, rgIter, rgArgs.v.maxiter)
    /\ rgPc' = "returned"
    /\ rgResult' = Some([err |-> "ok",
                         value |-> IF rgArgs.v.shifts_array
                                   THEN [kind |-> "array", delta |-> rgDelta]
                                   ELSE fd_shift(rgDelta, rgArgs.v.ext, rgMesh)])
    /\ UNCHANGED <<rgArgs, rgInitial, rgDelta, rgIter, rgMaxDiff, rgWhole, rgMesh, rgCols, rgD2, rgPeriodic>>
    /\ UNCHANGED notReg

IdleReg ==
    /\ rgPc = "idle"
    /\ rgArgs = None
    /\ rgInitial = <<>>
    /\ rgDelta = <<>>
    /\ rgIter = 0
    /\ rgMaxDiff = Num(0)
    /\ rgWhole = <<>>
    /\ rgMesh = <<>>
    /\ rgCols = <<>>
    /\ rgD2 = trapz_square(<<>>, <<>>)
    /\ rgPeriodic = <<FALSE, FALSE>>
    /\ rgResult = None

\* ----------------------------------------------------- landmark_shift
\* the k-th smallest value of a float array
KthSmallest(s, k) ==
    s[CHOOSE i \in 1..Len(s) :
          /\ Cardinality({j \in 1..Len(s) : FLt(s[j], s[i])}) < k
          /\ Cardinality({j \in 1..Len(s) : FLe(s[j], s[i])}) >= k]

\* numpy.mean and numpy.median of a non-empty float array
np_mean(s) == FDiv(FSum(s), Num(Len(s)))

np_median(s) ==
    IF Len(s) % 2 = 1 THEN KthSmallest(s, (Len(s) + 1) \div 2)
    ELSE FDiv(FAdd(KthSmallest(s, Len(s) \div 2), KthSmallest(s, Len(s) \div 2 + 1)),
              Num(2))

\* float(location): a number, or a text float() can or cannot read
py_float(location) ==
    IF location.kind = "number" \/ (location.kind = "text" /\ location.numeric)
    THEN [err |-> "ok", v |-> location.v]
    ELSE [err |-> "ValueError", v |-> Fnan]

InvalidLocation == "Invalid location, must be 'minimize', 'mean', 'median','middle' or a number in the domain"

landmark_shift_mean_for_median(fd_, landmarks, location, ext, shifts_array) ==
    IF Len(landmarks) # fd_.nsamples
    THEN [err |-> "ValueError", msg |-> "landmark list"]
    ELSE LET name == IF location.kind = "text" THEN location.name ELSE ""
             p == IF name = "minimize"
                  THEN [err |-> "ok", v |-> FDiv(FAdd(FMax(landmarks), FMin(landmarks)), Num(2))]
                  ELSE IF name = "mean" \/ name = "median"
                  THEN [err |-> "ok", v |-> np_mean(landmarks)]
                  ELSE IF name = "middle"
                  THEN [err |-> "ok", v |-> Frac(fd_.domain_range[2] + fd_.domain_range[1], 2)]
                  ELSE py_float(location)
         IN IF p.err # "ok"
            THEN [err |-> "ValueError", msg |-> InvalidLocation]
            ELSE LET shifts == [i \in 1..Len(landmarks) |-> FSub(landmarks[i], p.v)]
                 IN [err |-> "ok", msg |-> "",
                     value |-> IF shifts_array THEN [kind |-> "array", delta |-> shifts]
                               ELSE fd_shift(shifts, ext, <<>>)]

\* landmark_shift(fd, landmarks, location, ext, shifts_array=...), tfine left
\* at its default []
landmark_shift(fd_, landmarks, location, ext, shifts_array) ==
    IF Len(landmarks) # fd_.nsamples
    THEN [err |-> "ValueError", msg |-> "landmark list"]
    ELSE LET name == IF location.kind = "text" THEN location.name ELSE ""
             p == IF name = "minimize"
                  THEN [err |-> "ok", v |-> FDiv(FAdd(FMax(landmarks), FMin(landmarks)), Num(2))]
                  ELSE IF name = "mean"
                  THEN [err |-> "ok", v |-> np_mean(landmarks)]
                  ELSE IF name = "median"
                  THEN [err |-> "ok", v |-> np_median(landmarks)]
                  ELSE IF name = "middle"
                  THEN [err |-> "ok", v |-> Frac(fd_.domain_range[2] + fd_.domain_range[1], 2)]
                  ELSE py_float(location)
         IN IF p.err # "ok"
            THEN [err |-> "ValueError", msg |-> InvalidLocation]
            ELSE LET shifts == [i \in 1..Len(landmarks) |-> FSub(landmarks[i], p.v)]
                 IN [err |-> "ok", msg |-> "",
                     value |-> IF shifts_array THEN [kind |-> "array", delta |-> shifts]
                               ELSE fd_shift(shifts, ext, <<>>)]

\* the samples of curves: 1 to MaxSamples + 1 curves on (0, 1), so that the
\* median of an odd number of landmarks differs from their mean
LandmarkSamples ==
    {[nsamples |-> n, nbasis |-> 1, domain_range |-> <<0, 1>>,
      default_extrapolation |-> "slice"] : n \in 1..(MaxSamples + 1)}

\* landmark arguments: up to one more than the curves there can be
LandmarkTimes == {Frac(1, 5), Frac(1, 2), Frac(4, 5)}
LandmarkLists == UNION {[1..n -> LandmarkTimes] : n \in 1..(MaxSamples + 2)}

\* location arguments: the policies, numbers, a text float() reads, a text
\* it does not read
Locations ==
    {[kind |-> "text", name |-> n, numeric |-> FALSE, v |-> Fnan] :
        n \in {"minimize", "mean", "median", "middle", "centre"}}
    \cup {[kind |-> "number", name |-> "", numeric |-> TRUE, v |-> x] :
            x \in {Num(0), Frac(1, 2)}}
    \cup {[kind |-> "text", name |-> "0.5", numeric |-> TRUE, v |-> Frac(1, 2)]}

\* landmark_shift(fd, landmarks, location, shifts_array=...)
LandmarkShift ==
    \E fd_ \in LandmarkSamples, landmarks \in LandmarkLists,
       location \in Locations, shifts_array \in BOOLEAN :
        /\ lmArgs.none
        /\ lmArgs' = Some([fd |-> fd_, landmarks |-> landmarks,
                           location |-> location, shifts_array |-> shifts_array])
        /\ lmResult' = Some(landmark_shift(fd_, landmarks, location, "default", shifts_array))
        /\ UNCHANGED notLandmark

IdleLandmark ==
    /\ lmArgs = None
    /\ lmResult = None

\* ------------------------------------------- LinearFunctionalRegression
\* An object is the class it is an instance of and what the code reads of
\* it: n is the number of samples of a functional object, the length of a
\* list, the number of functions of a basis.
Object(cls, n, of) == [cls |-> cls, n |-> n, basis |-> of]

\* isinstance(obj, FData), isinstance(obj, Basis), isinstance(obj, list)
IsFData(obj) == obj.cls = "FDataBasis"
IsBasis(obj) == obj.cls = "Basis"
IsList(obj) == obj.cls = "list"

\* obj.nsamples: the number of samples of a functional object
nsamples(obj) == obj.n

\* LinearFunctionalRegression(beta_basis)
LinearFunctionalRegression_init(beta_basis) ==
    [beta_basis |-> beta_basis, fitted |-> FALSE]

\* x[j] = FDataBasis(Constant(y.domain_range), np.asarray(x[j]).reshape((-1, 1)))
ListToFData(xj) == IF IsList(xj) THEN Object("FDataBasis", xj.n, "Constant") ELSE xj

ValueError(msg, x) == [err |-> "ValueError", msg |-> msg, x |-> x, weights |-> <<>>]

_argcheck_any_weights(self, y, x, weights) ==
    IF ~IsFData(y)
    THEN ValueError("The explanined variable is not an FData objetc", x)
    ELSE IF Len(self.beta_basis) # Len(x)
    THEN ValueError("Independent variables number should be equal to the number of beta basis", x)
    ELSE LET x_ == [j \in 1..Len(x) |-> ListToFData(x[j])]
             weights_ == IF weights.none THEN [i \in 1..nsamples(y) |-> 1] ELSE weights.v
         IN IF \E j \in 1..Len(x_) : nsamples(y) # nsamples(x_[j])
            THEN ValueError("Dependent and independent variables should have the same number of samples", x_)
            ELSE IF \E j \in 1..Len(self.beta_basis) : ~IsBasis(self.beta_basis[j])
            THEN ValueError("Betas should be a list of Basis.", x_)
            ELSE IF Len(weights_) # nsamples(y)
            THEN ValueError("The number of weights should be equal to the independent samples.", x_)
            ELSE [err |-> "ok", msg |-> "", x |-> x_, weights |-> weights_]

\* _argcheck(self, y, x, weights): what it raises or returns, and the list x
\* as the loop over its entries leaves it
_argcheck(self, y, x, weights) ==
    IF ~IsFData(y)
    THEN ValueError("The explanined variable is not an FData objetc", x)
    ELSE IF Len(self.beta_basis) # Len(x)
    THEN ValueError("Independent variables number should be equal to the number of beta basis", x)
    ELSE LET x_ == [j \in 1..Len(x) |-> ListToFData(x[j])]
             weights_ == IF weights.none THEN [i \in 1..nsamples(y) |-> 1] ELSE weights.v
         IN IF \E j \in 1..Len(x_) : nsamples(y) # nsamples(x_[j])
            THEN ValueError("Dependent and independent variables should have the same number of samples", x_)
            ELSE IF \E j \in 1..Len(self.beta_basis) : ~IsBasis(self.beta_basis[j])
            THEN ValueError("Betas should be a list of Basis.", x_)
            ELSE IF Len(weights_) # nsamples(y)
            THEN ValueError("The number of weights should be equal to the independent samples.", x_)
            ELSE IF \E i \in 1..Len(weights_) : weights_[i] < 0
            THEN ValueError("The weights should be non negative values", x_)
            ELSE [err |-> "ok", msg |-> "", x |-> x_, weights |-> weights_]

\* fit(self, X, y, sample_weight): singular tells whether the assembled
\* matrix Cmat of these data has no inverse. The result names the stages
\* entered, the estimator and the list X as the call leaves them.
fit(self, X, y, sample_weight, singular) ==
    LET checked == _argcheck(self, y, X, sample_weight)
    IN IF checked.err # "ok"
       THEN [err |-> checked.err, msg |-> checked.msg, stages |-> <<"_argcheck">>,
             self |-> self, X |-> checked.x, weights |-> checked.weights]
       ELSE IF singular
       THEN [err |-> "LinAlgError", msg |-> "Singular matrix",
             stages |-> <<"_argcheck", "assemble", "inv">>,
             self |-> self, X |-> checked.x, weights |-> checked.weights]
       ELSE [err |-> "ok", msg |-> "",
             stages |-> <<"_argcheck", "assemble", "inv", "store">>,
             self |-> [beta_basis |->
                           [j \in 1..Len(self.beta_basis) |->
                               Object("FDataBasis", 1, self.beta_basis[j])],
                       fitted |-> TRUE],
             X |-> checked.x, weights |-> checked.weights]

\* the entries an estimator is built on: bases and something that is none
FitBetas == {Object("Basis", 1, "self"), Object("str", 1, "none")}

\* the outcomes: functional objects of 1 to MaxSamples samples, and an array
FitOutcomes ==
    {Object("FDataBasis", n, "given") : n \in 1..MaxSamples}
    \cup {Object("ndarray", 1, "none")}

\* the predictors: functional objects and plain lists of 1 to MaxSamples values
FitPredictors ==
    {Object(cls, n, IF cls = "list" THEN "none" ELSE "given") :
        cls \in {"FDataBasis", "list"}, n \in 1..MaxSamples}

\* one or two predictors, one or two coefficient bases
FitLengths == {1, 2}

\* sample_weight: omitted, all ones, or ones with a negative last weight
FitWeights ==
    {None}
    \cup {Some([i \in 1..n |-> 1]) : n \in 1..MaxSamples}
    \cup {Some([i \in 1..n |-> IF i = n THEN -1 ELSE 1]) : n \in 1..MaxSamples}

\* reg = LinearFunctionalRegression(beta_basis)
LinearFunctionalRegression ==
    \E p \in FitLengths : \E beta_basis \in [1..p -> FitBetas] :
        /\ ftSelf.none
        /\ ftSelf' = Some(LinearFunctionalRegression_init(beta_basis))
        /\ UNCHANGED <<ftArgs, ftBefore, ftResult, ftHistory>>
        /\ UNCHANGED notFit

\* the state after reg.fit(X, y, sample_weight) on the caller's objects
FitCall(X, y, sample_weight, singular) ==
    LET r == fit(ftSelf.v, X, y, sample_weight, singular)
    IN /\ ftBefore' = Some([X |-> X, y |-> y, sample_weight |-> sample_weight,
                            beta_basis |-> ftSelf.v.beta_basis])
       /\ ftSelf' = Some(r.self)
       /\ ftArgs' = Some([X |-> r.X, y |-> y, sample_weight |-> sample_weight,
                          singular |-> singular])
       /\ ftResult' = Some([err |-> r.err, msg |-> r.msg, stages |-> r.stages,
                            weights |-> r.weights])
       /\ ftHistory' = Append(ftHistory, r.err)
       /\ UNCHANGED notFit

\* reg.fit(X, y, sample_weight), the first call
Fit ==
    \E p \in FitLengths : \E X \in [1..p -> FitPredictors] :
    \E y \in FitOutcomes, sample_weight \in FitWeights, singular \in BOOLEAN :
        /\ ~ftSelf.none
        /\ ftArgs.none
        /\ FitCall(X, y, sample_weight, singular)

\* reg.fit(X, y, sample_weight) again, with the objects of the call before
Refit ==
    /\ ~ftArgs.none
    /\ Len(ftHistory) < MaxFits
    /\ FitCall(ftArgs.v.X, ftArgs.v.y, ftArgs.v.sample_weight, ftArgs.v.singular)

IdleFit ==
    /\ ftSelf = None
    /\ ftArgs = None
    /\ ftBefore = None
    /\ ftResult = None
    /\ ftHistory = <<>>

\* ------------------------------- the calls made for a matrix of a basis
\* A frame is a running call of _inner_matrix, gram_matrix or _gram_matrix:
\* loop tells whether it runs the double loop, i and j are the indices of
\* the entry it computes next (from 0, as range() gives them), waiting
\* whether that entry's inner product is inside a matrix computation, and
\* caller names what called it.
Frame(fn, self, other, loop, caller) ==
    [fn |-> fn, self |-> self, other |-> other, loop |-> loop, i |-> 0, j |-> 0,
     waiting |-> FALSE, caller |-> caller]

\* the frames a call of fn opens before its first entry: _inner_matrix
\* hands an absent or equal other to gram_matrix, which runs _gram_matrix
\* unless the matrix is cached
CallFrames(fn, self, other, caller) ==
    IF fn = "_gram_matrix"
    THEN <<Frame("_gram_matrix", self, self, TRUE, caller)>>
    ELSE IF other.none \/ Basis_eq(self, other.v)
    THEN <<Frame("_inner_matrix", self, self, FALSE, caller),
           Frame("gram_matrix", self, self, FALSE, "_inner_matrix")>>
         \o (IF self._gram_matrix_cached.none
             THEN <<Frame("_gram_matrix", self, self, TRUE, "gram_matrix")>>
             ELSE <<>>)
    ELSE <<Frame("_inner_matrix", self, other.v, TRUE, caller)>>

LoopNextFullSquare(f) ==
    IF f.j + 1 < f.other.n_basis
    THEN [f EXCEPT !.j = f.j + 1, !.waiting = FALSE]
    ELSE [f EXCEPT !.i = f.i + 1, !.j = 0, !.waiting = FALSE]

\* the indices after entry (i, j): for j in range(other.n_basis) in
\* _inner_matrix, for j in range(i, fbasis.n_basis) in _gram_matrix
LoopNext(f) ==
    IF f.j + 1 < f.other.n_basis
    THEN [f EXCEPT !.j = f.j + 1, !.waiting = FALSE]
    ELSE [f EXCEPT !.i = f.i + 1,
                   !.j = IF f.fn = "_gram_matrix" THEN f.i + 1 ELSE 0,
                   !.waiting = FALSE]

\* for i in range(self.n_basis) has entries left
LoopRuns(f) == f.loop /\ f.i < f.self.n_basis

\* fd[k] of an object known by its basis and n_samples, k >= 0
ShapeGetItem(fd_, k) ==
    FDShape(copy(fd_.basis), Max(Min(k + 1, fd_.n_samples) - Min(k, fd_.n_samples), 0))

\* the bases a matrix is asked of, on (0, 1), and the bases given as other
GramSelves == {o \in Operands : domain_range(o) = <<<<0, 1>>>>}
GramOthers == {None} \cup {Some(o) : o \in Operands}

\* basis._gram_matrix() or basis._inner_matrix(other)
GramCall ==
    \E self \in GramSelves, other \in GramOthers, fn \in {"_gram_matrix", "_inner_matrix"} :
        /\ gmCall.none
        /\ fn = "_gram_matrix" => other.none
        /\ gmCall' = Some([fn |-> fn, self |-> self, other |-> other])
        /\ gmStack' = CallFrames(fn, self, other, "caller")
        /\ gmCount' = 0
        /\ gmResult' = None
        /\ UNCHANGED notGram

\* one pass of the loop body of the innermost call:
\* first[i].inner_product(second[j], None, None)
GramStep ==
    /\ gmStack # <<>>
    /\ LET d == Len(gmStack)
           f == gmStack[d]
           first == to_basis(f.self)
           second == to_basis(f.other)
           r == inner_product(ShapeGetItem(first, f.i), FALSE,
                              ShapeGetItem(second, f.j), None)
       IN /\ LoopRuns(f) /\ ~f.waiting
          /\ IF r.err # "ok"
             THEN /\ gmStack' = <<>>
                  /\ gmResult' = Some([err |-> r.err])
                  /\ UNCHANGED gmCount
             ELSE IF r.path = "integrate"
             THEN /\ gmStack' = [gmStack EXCEPT ![d] = LoopNext(f)]
                  /\ gmCount' = gmCount + r.shape[1] * r.shape[2]
                  /\ UNCHANGED gmResult
             ELSE LET opened == CallFrames("_inner_matrix", f.self, Some(f.other),
                                           "inner_product")
                  IN IF d + Len(opened) > MaxDepth
                     THEN /\ gmStack' = <<>>
                          /\ gmResult' = Some([err |-> "RecursionError"])
                          /\ UNCHANGED gmCount
                     ELSE /\ gmStack' = [gmStack EXCEPT ![d].waiting = TRUE] \o opened
                          /\ UNCHANGED <<gmCount, gmResult>>
    /\ UNCHANGED gmCall
    /\ UNCHANGED notGram

\* the innermost call returns its matrix to what called it
GramReturn ==
    /\ gmStack # <<>>
    /\ LET d == Len(gmStack)
           f == gmStack[d]
           rest == SubSeq(gmStack, 1, d - 1)
       IN /\ ~LoopRuns(f)
          /\ gmStack' = IF d > 1 /\ rest[d - 1].waiting
                        THEN [rest EXCEPT ![d - 1] = LoopNext(rest[d - 1])]
                        ELSE rest
          /\ gmResult' = IF d = 1 THEN Some([err |-> "ok"]) ELSE gmResult
    /\ UNCHANGED <<gmCall, gmCount>>
    /\ UNCHANGED notGram

IdleGram ==
    /\ gmCall = None
    /\ gmStack = <<>>
    /\ gmCount = 0
    /\ gmResult = None

\* ------------------------------------- the storage of the coefficients
\* An ndarray is a view [base, rows]: the buffer it reads and writes, and the
\* rows of that buffer it shows, in order.  A buffer is a list of rows of
\* one integer column.
View(base, rows) == [base |-> base, rows |-> rows]

\* np.atleast_2d of an array that is 2-D already: the array itself
atleast_2d_array(array) == array

\* a[start:stop], a basic slice: a view of the same buffer
SliceView(array, start, stop) ==
    LET n == Len(array.rows)
        s == SliceIndex(start, n)
        t == SliceIndex(stop, n)
    IN View(array.base, SubSeq(array.rows, s + 1, t))

\* FDataBasis.__init__ given an array: the coefficients the object holds
init_coefficients(coefficients) == atleast_2d_array(coefficients)

\* FDataBasis.copy(coefficients=...)
copy_coefficients(self, coefficients) ==
    init_coefficients(IF coefficients.none THEN self.coefficients ELSE coefficients.v)

\* FDataBasis.__getitem__ with an int key
getitem_coefficients(self, key) ==
    copy_coefficients(self, Some(SliceView(self.coefficients, key, key + 1)))

\* FDataBasis.derivative(0)
derivative0_coefficients(self) == copy_coefficients(self, None)

\* the values an object's coefficient matrix shows
CoefficientsOf(heap, obj) ==
    [r \in 1..Len(obj.coefficients.rows) |-> heap[obj.coefficients.base][obj.coefficients.rows[r]]]

StoredValues == 0..1

\* an operation on object k produced a new object
Produced(op, k, coefficients) ==
    /\ Len(stObjs) <= MaxOps
    /\ stObjs' = Append(stObjs, [coefficients |-> coefficients, source |-> k])
    /\ stLast' = [op |-> op, target |-> Len(stObjs) + 1]
    /\ UNCHANGED stHeap
    /\ UNCHANGED notStorage

\* fd = FDataBasis(basis, rows): a list of rows becomes a new array
StConstruct ==
    \E n \in 1..MaxSamples :
        /\ stObjs = <<>>
        /\ stHeap' = <<[r \in 1..n |-> 0]>>
        /\ stObjs' = <<[coefficients |-> init_coefficients(View(1, [r \in 1..n |-> r])),
                        source |-> 0]>>
        /\ stLast' = [op |-> "init", target |-> 1]
        /\ UNCHANGED notStorage

\* fd.copy()
StCopy ==
    \E k \in 1..Len(stObjs) : Produced("copy", k, copy_coefficients(stObjs[k], None))

\* fd.derivative(0)
StDerivative ==
    \E k \in 1..Len(stObjs) : Produced("derivative", k, derivative0_coefficients(stObjs[k]))

\* fd[key]
StGetItem ==
    \E k \in 1..Len(stObjs) :
        \E key \in 0..(Len(stObjs[k].coefficients.rows) - 1) :
            Produced("getitem", k, getitem_coefficients(stObjs[k], key))

\* fd.coefficients[r, 0] = value
StWrite ==
    \E k \in 1..Len(stObjs) :
        \E r \in 1..Len(stObjs[k].coefficients.rows), value \in StoredValues :
            LET c == stObjs[k].coefficients
            IN /\ stHeap' = [stHeap EXCEPT ![c.base][c.rows[r]] = value]
               /\ stLast' = [op |-> "write", target |-> k]
               /\ UNCHANGED stObjs
               /\ UNCHANGED notStorage

IdleStorage ==
    /\ stHeap = <<>>
    /\ stObjs = <<>>
    /\ stLast = [op |-> "none", target |-> 0]

\* ------------------------------------------------------ specifications
NextLifecycle == Construct \/ Rescale \/ Copy \/ DefaultBasisOfProduct

NextBasis == Construct \/ Rescale \/ Copy \/ SetDomainRange \/ GramMatrix \/ InnerMatrix

NextThreads == TGetAttr \/ TTestNone \/ TComputeStep \/ TStoreCache \/ TReturn

NextEval == Evaluate

NextProduct == Product

NextInner == InnerProduct

NextFData ==
    \/ FDConstruct \/ FDCopy \/ GetItem \/ Mean \/ Concatenate
    \/ Times \/ Add \/ Sub \/ Mul \/ TrueDiv

NextShift == Shift

NextReg == RegCall \/ RegIterate \/ RegReturn

NextTimes == TimesFD

NextOp == Derivative \/ OpAdd \/ OpSub \/ OpMul \/ OpConcatenate \/ OpGetItem

NextLandmark == LandmarkShift

NextFit == LinearFunctionalRegression \/ Fit \/ Refit

NextGram == GramCall \/ GramStep \/ GramReturn

NextStorage == StConstruct \/ StCopy \/ StDerivative \/ StGetItem \/ StWrite

IdleRest == IdleProduct /\ IdleInner /\ IdleFData /\ IdleShift /\ IdleOp /\ IdleTimes /\ IdleReg /\ IdleLandmark /\ IdleFit /\ IdleGram /\ IdleStorage

InitSpecBasis == InitBasis /\ IdleThreads /\ IdleEval /\ IdleRest

InitSpecThreads == InitThreads /\ InitBasis /\ IdleEval /\ IdleRest

InitSpecEval == InitEval /\ InitBasis /\ IdleThreads /\ IdleRest

InitSpecIdle == InitBasis /\ IdleThreads /\ IdleEval /\ IdleRest

InitSpecShift ==
    /\ InitShift
    /\ InitBasis /\ IdleThreads /\ IdleEval
    /\ IdleProduct /\ IdleInner /\ IdleFData /\ IdleOp /\ IdleTimes /\ IdleReg /\ IdleLandmark /\ IdleFit /\ IdleGram /\ IdleStorage

InitSpecOp ==
    /\ InitOp
    /\ InitBasis /\ IdleThreads /\ IdleEval
    /\ IdleProduct /\ IdleInner /\ IdleFData /\ IdleShift /\ IdleTimes /\ IdleReg /\ IdleLandmark /\ IdleFit /\ IdleGram /\ IdleStorage

SpecLifecycle == InitSpecBasis /\ [][NextLifecycle]_vars

SpecBasis == InitSpecBasis /\ [][NextBasis]_vars

SpecThreads == InitSpecThreads /\ [][NextThreads]_vars

SpecEval == InitSpecEval /\ [][NextEval]_vars

SpecProduct == InitSpecIdle /\ [][NextProduct]_vars

SpecInner == InitSpecIdle /\ [][NextInner]_vars

SpecFData == InitSpecIdle /\ [][NextFData]_vars

SpecShift == InitSpecShift /\ [][NextShift]_vars

SpecOp == InitSpecOp /\ [][NextOp]_vars

SpecTimes == InitSpecIdle /\ [][NextTimes]_vars

SpecReg == InitSpecIdle /\ [][NextReg]_vars

\* a started call goes on: each pass of the body ends, and so does the return
SpecRegFair == SpecReg /\ WF_vars(RegIterate) /\ WF_vars(RegReturn)

SpecLandmark == InitSpecIdle /\ [][NextLandmark]_vars

SpecFit == InitSpecIdle /\ [][NextFit]_vars

SpecGram == InitSpecIdle /\ [][NextGram]_vars

SpecGramFair == SpecGram /\ WF_vars(GramStep) /\ WF_vars(GramReturn)

SpecStorage == InitSpecIdle /\ [][NextStorage]_vars

\* ------------------------------------------------------------- claims
\* C1: on one instance, over any sequence of gram_matrix() and
\* _inner_matrix(None or an equal basis) calls, _gram_matrix runs at most
\* once, and only at the first such call, and all calls return one matrix.
C1_GramComputedOnce ==
    ~basis.none =>
        /\ runAt \subseteq {1}
        /\ Cardinality(returned) <= 1
        /\ (calls >= 1 => Cardinality(returned) = 1)

C1_Witness ==
    /\ ~basis.none
    /\ calls = MaxCalls
    /\ runAt = {1}
    /\ Cardinality(returned) = 1

\* C3: a filled Gram cache is always the Gram matrix of the instance's
\* current domain_range and n_basis (no operation on an existing instance
\* changes its domain_range).
C3_CacheNeverStale ==
    (~basis.none /\ ~basis.v._gram_matrix_cached.none) =>
        basis.v._gram_matrix_cached.v = _gram_matrix(basis.v)

\* C4: every instance produced by construction, rescale, copy or the default
\* product has a domain_range that is one interval (a, b) with a < b, and
\* n_basis >= 1.
C4_SingleInterval ==
    ~basis.none =>
        LET d == domain_range(basis.v)
        IN /\ Len(d) = 1
           /\ Len(d[1]) = 2
           /\ d[1][1] < d[1][2]
           /\ basis.v.n_basis >= 1

\* C5: two bases are equal exactly when family, domain and n_basis agree,
\* whatever the cache holds, and equal bases hash, to equal values.
C5_StructuralEqHash ==
    ~basis.none =>
        \A other \in Operands \cup {basis.v} :
            /\ Basis_eq(basis.v, other) <=>
                  /\ basis.v.family = other.family
                  /\ domain_range(basis.v) = domain_range(other)
                  /\ basis.v.n_basis = other.n_basis
            /\ Basis_eq(basis.v, other) =>
                  /\ Basis_hash(basis.v) # "TypeError"
                  /\ Basis_hash(basis.v) = Basis_hash(other)

\* C2: two threads racing through gram_matrix() on an empty cache both return
\* the Gram matrix, the cache ends holding it, and neither the cache nor a
\* value read from it or returned is ever unset-when-returned or partly
\* built; the race can only make _gram_matrix run twice.
C2_RaceBenign ==
    ~tbasis.none =>
        LET G == _gram_matrix(tbasis.v)
        IN /\ tcache \in {None, Some(G)}
           /\ \A t \in Threads :
                /\ tpc[t] = "test" => tgram[t] \in {None, Some(G)}
                /\ tpc[t] \in {"store", "return"} => tgram[t] = Some(G)
                /\ tpc[t] = "done" => tret[t] = Some(G) /\ tcache = Some(G)
           /\ truns <= 2

C2_Witness ==
    /\ ~tbasis.none
    /\ \A t \in Threads : tpc[t] = "done"
    /\ truns = 2
    /\ tret[1] = tret[2]
    /\ tcache = tret[1]

\* C6: evaluate raises the invalid-argument error without calling the family
\* rule when derivative < 0 or a point is NaN (the derivative check first);
\* otherwise it returns the family rule's result on the points as a 1-D array.
C6_EvaluateValidates ==
    ~evArgs.none =>
        LET a == evArgs.v
            r == evResult.v
            points == IF a.kind = "scalar" THEN <<a.eval_points>> ELSE a.eval_points
            hasNaN == \E k \in 1..Len(points) : points[k].nan
        IN IF a.derivative < 0
           THEN r.err = "ValueError" /\ r.msg = "derivative" /\ evCalls = <<>>
           ELSE IF hasNaN
           THEN r.err = "ValueError" /\ r.msg = "nan" /\ evCalls = <<>>
           ELSE /\ r.err = "ok"
                /\ evCalls = <<<<points, a.derivative>>>>
                /\ r.value = _evaluate(evBasis.v, points, a.derivative)

\* a call that has both a negative derivative and a NaN point
C6_Witness ==
    /\ ~evArgs.none
    /\ evArgs.v.derivative < 0
    /\ evArgs.v.kind = "list"
    /\ \E k \in 1..Len(evArgs.v.eval_points) : evArgs.v.eval_points[k].nan
    /\ evResult.v.msg = "derivative"

\* C8: inner_product takes the matrix path exactly when
\* n_samples_self * n_samples_other > n_basis_self * n_basis_other, counted
\* after a Basis operand became an FDataBasis and after the weights were
\* multiplied in, and the integration path otherwise (ties included); either
\* way the result is n_samples_self x n_samples_other; operands on different
\* domains fail before a path is chosen.
C8_DispatchRule ==
    ~ipArgs.none =>
        LET a == ipArgs.v
            r == ipResult.v
            otherDomain == IF a.isBasis THEN domain_range(a.other)
                                        ELSE domain_range(a.other.basis)
            n0 == IF a.isBasis THEN a.other.n_basis ELSE a.other.n_samples
            k0 == IF a.isBasis THEN a.other.n_basis ELSE a.other.basis.n_basis
        IN IF domain_range(a.self.basis) # otherDomain
           THEN r.err = "ValueError" /\ r.path = "none"
           ELSE r.err = "ok" =>
                  LET n1 == n0
                      k1 == r.other.basis.n_basis
                  IN /\ a.weights.none => k1 = k0
                     /\ r.other.n_samples = n1
                     /\ r.path \in {"matrix", "integrate"}
                     /\ r.path = "matrix" <=>
                            a.self.n_samples * n1 > a.self.basis.n_basis * k1
                     /\ r.shape = <<a.self.n_samples, n1>>

\* a tie, n_samples_self * n_samples_other = n_basis_self * n_basis_other
\* with more than one sample, goes to the integration path
C8_Witness ==
    /\ ~ipArgs.none
    /\ ipResult.v.err = "ok"
    /\ ipArgs.v.self.n_samples > 1
    /\ ipArgs.v.self.n_samples * ipResult.v.other.n_samples
         = ipArgs.v.self.basis.n_basis * ipResult.v.other.basis.n_basis
    /\ ipResult.v.path = "integrate"

\* C9: on one domain the default product basis is a BSpline on that domain
\* whose order is n1 + n2 capped at 8 and whose size is n1 + n2, raised to
\* order + 1 when that is larger; on different domains the call raises and
\* returns no basis.
C9_ProductBasis ==
    ~prArgs.none =>
        LET one == prArgs.v.one
            other == prArgs.v.other
            total == one.n_basis + other.n_basis
            r == prResult.v
        IN IF domain_range(one) # domain_range(other)
           THEN r = [err |-> "ValueError"]
           ELSE /\ r.err = "ok"
                /\ r.family = "BSpline"
                /\ r.domain_range = domain_range(other)
                /\ (total <= 8 => r.norder = total /\ r.n_basis = total + 1)
                /\ (total > 8 => r.norder = 8 /\ r.n_basis = total)
                /\ r.n_basis > r.norder
                /\ r.n_basis >= total

\* a product of two bases whose sizes add up to more than 8
C9_Witness ==
    /\ ~prArgs.none
    /\ prResult.v.err = "ok"
    /\ prArgs.v.one.n_basis + prArgs.v.other.n_basis > 8
    /\ prResult.v.norder = 8

\* C7: every FDataBasis object the constructor, copy, indexing, mean,
\* concatenate, times with a number or a list, +, -, * and / produce has a
\* 2-D coefficient matrix with as many columns as its basis has functions,
\* and a constructor call whose coefficients have another number of columns
\* raises ValueError and builds no object.
C7_ColumnsMatchBasis ==
    /\ ~fd.none =>
        LET m == fd.v.coefficients
        IN /\ Len(m.shape) = 2
           /\ m.shape[2] = fd.v.basis.n_basis
           /\ Len(m.a) = m.shape[1]
           /\ \A i \in 1..Len(m.a) : Len(m.a[i]) = fd.v.basis.n_basis
    /\ fdCall.op = "init" =>
        LET columns == IF fdCall.args.kind = "scalar" THEN 1
                       ELSE IF fdCall.args.kind = "list"
                       THEN Len(fdCall.args.coefficients)
                       ELSE fdCall.args.coefficients.shape[2]
        IN columns # fdCall.args.basis.n_basis =>
               fdCall.err = "ValueError" /\ fd.none

\* reached: two operations after construction, a concatenation returned an
\* object with more rows than any constructed one
C7_Witness ==
    /\ ~fd.none
    /\ fdOps = MaxOps
    /\ fdCall.op = "concatenate"
    /\ fdCall.err = "ok"
    /\ fd.v.coefficients.shape[1] > MaxSamples
    /\ fd.v.coefficients.shape[2] = fd.v.basis.n_basis

\* C10: shift with a vector whose length differs from n_samples raises the
\* ValueError about the shifts vector before any evaluation, rescaling or
\* projection and leaves the source as it was; a vector of length n_samples
\* never raises that error.
C10_ShiftLengthGuard ==
    (~shArgs.none /\ shArgs.v.kind = "list") =>
        LET n == Len(shArgs.v.self.coefficients.a)
        IN IF Len(shArgs.v.shifts) # n
           THEN /\ shResult.v.err = "ValueError"
                /\ shResult.v.msg = "shifts vector"
                /\ shResult.v.trace = <<>>
                /\ shSelf = shArgs.v.self
           ELSE shResult.v.msg # "shifts vector"

\* reached: a vector longer than n_samples was rejected with nothing done
C10_Witness ==
    /\ ~shArgs.none
    /\ shArgs.v.kind = "list"
    /\ Len(shArgs.v.shifts) > Len(shArgs.v.self.coefficients.a)
    /\ shResult.v.err = "ValueError"
    /\ shResult.v.trace = <<>>

\* C11: a per-sample shift that returns, on domain [a, b]: with
\* restrict_domain the result's basis has the domain
\* [a - min(0, min(shifts)), b - max(0, max(shifts))], which lies inside
\* [a, b], and the points projected are exactly the grid points inside it;
\* without restrict_domain the domain is [a, b] and every grid point is
\* projected.
C11_RestrictedDomain ==
    (~shArgs.none /\ shArgs.v.kind = "list" /\ shResult.v.err = "ok") =>
        LET self == shArgs.v.self
            dom == domain_range(self.basis)[1]
            grid == ShiftGrid(self, shArgs.v.eval_points)
            lo == dom[1] - Min(0, np_min(shArgs.v.shifts))
            hi == dom[2] - Max(0, np_max(shArgs.v.shifts))
            inside == {k \in 1..Len(grid) :
                          grid[k][1] >= lo * grid[k][2] /\ grid[k][1] <= hi * grid[k][2]}
            res == shResult.v.value
            used == res.sample_points
        IN IF shArgs.v.restrict_domain
           THEN /\ domain_range(res.basis) = <<<<lo, hi>>>>
                /\ dom[1] <= lo /\ lo < hi /\ hi <= dom[2]
                /\ Len(used) = Cardinality(inside)
                /\ \A k \in inside : \E u \in 1..Len(used) : used[u] = grid[k]
                /\ \A i \in 1..Len(res.data_matrix) :
                       Len(res.data_matrix[i]) = Len(used)
           ELSE /\ domain_range(res.basis) = <<dom>>
                /\ used = grid
                /\ \A i \in 1..Len(res.data_matrix) :
                       Len(res.data_matrix[i]) = Len(grid)

\* reached: a restricted shift returned on a strictly smaller domain, having
\* dropped some grid points and kept others
C11_Witness ==
    /\ ~shArgs.none
    /\ shArgs.v.kind = "list"
    /\ shArgs.v.restrict_domain
    /\ shResult.v.err = "ok"
    /\ domain_range(shResult.v.value.basis) # domain_range(shArgs.v.self.basis)
    /\ Len(shResult.v.value.sample_points) > 0
    /\ Len(shResult.v.value.sample_points)
           < Len(ShiftGrid(shArgs.v.self, shArgs.v.eval_points))

\* C12: a scalar shift s is the shift by the vector (s, ..., s) without
\* restrict_domain: both calls ask for the projection of the same values at
\* the same points onto a basis with the same domain.
C12_ScalarIsVector ==
    (~shArgs.none /\ shArgs.v.kind = "scalar") =>
        LET self == shArgs.v.self
            each == [i \in 1..Len(self.coefficients.a) |-> shArgs.v.shifts]
            vector == shift(self, "list", each, FALSE, shArgs.v.eval_points)
        IN /\ shResult.v.err = vector.err
           /\ shResult.v.err = "ok" =>
                /\ domain_range(shResult.v.value.basis)
                       = domain_range(vector.value.basis)
                /\ shResult.v.value.sample_points = vector.value.sample_points
                /\ shResult.v.value.data_matrix = vector.value.data_matrix

\* the samples of the first k operands of a list
RECURSIVE FSumRows(_, _)
FSumRows(others, k) ==
    IF k = 0 THEN 0 ELSE FSumRows(others, k - 1) + n_samples(others[k])

\* C13: derivative(0) returns a copy identical to the object: an equal
\* basis, equal coefficients, the same dataset_label, axes_labels,
\* extrapolation and keepdims, and Basis._derivative is not called; a
\* negative order raises.
C13_DerivativeZeroIdentical ==
    (~opArgs.none /\ opArgs.v.op = "derivative") =>
        /\ opArgs.v.other = 0 =>
            /\ opResult.v.err = "ok"
            /\ opResult.v.rule = 0
            /\ Basis_eq(opResult.v.obj.basis, opArgs.v.self.basis)
            /\ opResult.v.obj.coefficients = opArgs.v.self.coefficients
            /\ opResult.v.obj.dataset_label = opArgs.v.self.dataset_label
            /\ opResult.v.obj.axes_labels = opArgs.v.self.axes_labels
            /\ opResult.v.obj.extrapolation = opArgs.v.self.extrapolation
            /\ opResult.v.obj.keepdims = opArgs.v.self.keepdims
        /\ opArgs.v.other < 0 => opResult.v.err = "ValueError"

\* C14: times of two FDataBasis on the same domain pairs the samples: with
\* one sample on exactly one side the result has as many samples as the
\* other side and sample i is the product of the single sample and sample i
\* of the other side; with equal counts sample i is the product of the two
\* i-th samples; differing domains raise the domain error.
C14_TimesBroadcast ==
    ~tmArgs.none =>
        LET x == tmArgs.v.self
            y == tmArgs.v.other
            n == n_samples(x)
            m == n_samples(y)
            res == tmResult.v
        IN IF domain_range(x.basis) # domain_range(y.basis)
           THEN /\ res.err = "ValueError"
                /\ res.msg = "The functions domains are different."
           ELSE (n = m \/ n = 1 \/ m = 1) =>
                   /\ res.err = "ok"
                   /\ Len(res.value.data_matrix) = Max(n, m)
                   /\ \A i \in 1..Max(n, m) : \A k \in 1..Len(res.value.sample_points) :
                         res.value.data_matrix[i][k] =
                             <<EvaluateAt(x.coefficients.a[IF n = 1 THEN 1 ELSE i],
                                          res.value.sample_points[k]),
                               EvaluateAt(y.coefficients.a[IF m = 1 THEN 1 ELSE i],
                                          res.value.sample_points[k])>>

\* a single sample was multiplied with each of several samples
C14_Witness ==
    /\ ~tmArgs.none
    /\ n_samples(tmArgs.v.self) = 1
    /\ n_samples(tmArgs.v.other) > 1
    /\ tmResult.v.err = "ok"
    /\ Len(tmResult.v.value.data_matrix) = n_samples(tmArgs.v.other)

\* C15 as stated: the grid of times has max(8 * max(n_basis_self,
\* n_basis_other) + 1, 201) evenly spaced points spanning the domain.
C15_GridOfEight ==
    (~tmArgs.none /\ tmResult.v.err = "ok") =>
        LET grid == tmResult.v.value.sample_points
            dom == domain_range(tmArgs.v.self.basis)[1]
            most == Max(tmArgs.v.self.basis.n_basis, tmArgs.v.other.basis.n_basis)
        IN /\ Len(grid) = Max(8 * most + 1, 201)
           /\ grid[1] = Num(dom[1])
           /\ grid[Len(grid)] = Num(dom[2])
           /\ \A k \in 1..(Len(grid) - 1) :
                 FSub(grid[k + 1], grid[k]) = Frac(dom[2] - dom[1], Len(grid) - 1)

\* C15, amended: the grid of times has max(10 * max(n_basis_self,
\* n_basis_other) + 1, 201) evenly spaced points, the first at the left end
\* of the common domain and the last at its right end.
C15_GridOfTen ==
    (~tmArgs.none /\ tmResult.v.err = "ok") =>
        LET grid == tmResult.v.value.sample_points
            dom == domain_range(tmArgs.v.self.basis)[1]
            most == Max(tmArgs.v.self.basis.n_basis, tmArgs.v.other.basis.n_basis)
        IN /\ Len(grid) = Max(10 * most + 1, 201)
           /\ grid[1] = Num(dom[1])
           /\ grid[Len(grid)] = Num(dom[2])
           /\ \A k \in 1..(Len(grid) - 1) :
                 FSub(grid[k + 1], grid[k]) = Frac(dom[2] - dom[1], Len(grid) - 1)

\* a grid of more than 201 points was used
C15_Witness ==
    /\ ~tmArgs.none
    /\ tmResult.v.err = "ok"
    /\ Len(tmResult.v.value.sample_points) > 201

\* C16: on equal bases x + y and x - y are objects on that basis whose
\* coefficients are the entry-wise sum and difference of the operands'
\* coefficients, x * k for a scalar k has k times the coefficients of x,
\* + and - of objects on unequal bases raise, and the object the operation
\* was called on is as it was.
C16_Arithmetic ==
    (~opArgs.none /\ opArgs.v.op \in {"add", "sub", "mul"}) =>
        LET x == opArgs.v.self
            y == opArgs.v.other
            res == opResult.v
            rows == x.coefficients.shape[1]
            cols == x.coefficients.shape[2]
            Entries(f(_, _)) ==
                /\ res.err = "ok"
                /\ Basis_eq(res.obj.basis, x.basis)
                /\ res.obj.coefficients.shape = <<rows, cols>>
                /\ \A i \in 1..rows : \A j \in 1..cols :
                      res.obj.coefficients.a[i][j] = f(i, j)
            sum(i, j) == FAdd(x.coefficients.a[i][j], y.coefficients.a[i][j])
            difference(i, j) == FSub(x.coefficients.a[i][j], y.coefficients.a[i][j])
            scaled(i, j) == FMul(x.coefficients.a[i][j], y)
        IN /\ opSelf = x
           /\ (opArgs.v.kind = "fd" /\ opArgs.v.op # "mul") =>
                IF ~Basis_eq(x.basis, y.basis) THEN res.err # "ok"
                ELSE y.coefficients.shape = x.coefficients.shape =>
                        IF opArgs.v.op = "add" THEN Entries(sum)
                                               ELSE Entries(difference)
           /\ (opArgs.v.kind = "scalar" /\ opArgs.v.op = "mul") => Entries(scaled)

\* [1, 0] + [0, 1] = [1, 1] was computed
C16_Witness ==
    /\ ~opArgs.none
    /\ opArgs.v.op = "add"
    /\ opArgs.v.kind = "fd"
    /\ opArgs.v.self.coefficients.a = <<<<Num(1), Num(0)>>>>
    /\ opArgs.v.other.coefficients.a = <<<<Num(0), Num(1)>>>>
    /\ opResult.v.err = "ok"
    /\ opResult.v.obj.coefficients.a = <<<<Num(1), Num(1)>>>>

\* C17: concatenate(*others) returns an object on the basis of self whose
\* coefficient rows are the rows of self followed by the rows of each other
\* operand in argument order, n_samples being the sum of the operands'; an
\* operand on an unequal basis makes it raise ValueError; the object it was
\* called on is as it was.
C17_Concatenate ==
    (~opArgs.none /\ opArgs.v.op = "concatenate") =>
        LET x == opArgs.v.self
            others == opArgs.v.other
            res == opResult.v
            before(k) == n_samples(x) + FSumRows(others, k - 1)
        IN /\ opSelf = x
           /\ IF \E k \in 1..Len(others) : ~Basis_eq(others[k].basis, x.basis)
              THEN res.err = "ValueError"
              ELSE /\ res.err = "ok"
                   /\ Basis_eq(res.obj.basis, x.basis)
                   /\ n_samples(res.obj) = before(Len(others) + 1)
                   /\ Len(res.obj.coefficients.a) = n_samples(res.obj)
                   /\ \A i \in 1..n_samples(x) :
                         res.obj.coefficients.a[i] = x.coefficients.a[i]
                   /\ \A k \in 1..Len(others) : \A i \in 1..n_samples(others[k]) :
                         res.obj.coefficients.a[before(k) + i] = others[k].coefficients.a[i]

\* two operands were appended to an object of more than one sample
C17_Witness ==
    /\ ~opArgs.none
    /\ opArgs.v.op = "concatenate"
    /\ Len(opArgs.v.other) = 2
    /\ n_samples(opArgs.v.self) > 1
    /\ opArgs.v.other[1].coefficients # opArgs.v.other[2].coefficients
    /\ opResult.v.err = "ok"

\* C18 as stated: shift_registration raises before any iteration when a
\* non-empty initial has a length other than the number of samples, and when
\* ext, 'default' resolved to the object's default, is none of basis,
\* periodic or slice; an empty initial becomes n_samples zeros.
C18_NamedExtOnly ==
    ~rgArgs.none =>
        LET a == rgArgs.v
            resolved == IF a.ext = "default" THEN a.fd.default_extrapolation ELSE a.ext
            badLength == Len(a.initial.v) # 0 /\ Len(a.initial.v) # a.fd.nsamples
            badExt == resolved \notin {"basis", "periodic", "slice"}
        IN /\ (badLength \/ badExt) =>
                /\ rgPc = "raised"
                /\ rgResult.v.err = "ValueError"
                /\ rgIter = 0
           /\ (Len(a.initial.v) = 0 /\ rgIter = 0) => rgDelta = np_zeros(a.fd.nsamples)

\* C18, amended: shift_registration raises before any iteration when a
\* non-empty initial has a length other than the number of samples, and when
\* ext, 'default' or 0 resolved to the object's default, is none of basis,
\* periodic or slice nor one of their codes 1, 2 and 3, and in no other
\* case; an empty initial becomes n_samples zeros.
C18_FailsBeforeIterating ==
    ~rgArgs.none =>
        LET a == rgArgs.v
            resolved == IF a.ext \in {"default", "0"} THEN a.fd.default_extrapolation
                                                      ELSE a.ext
            badLength == Len(a.initial.v) # 0 /\ Len(a.initial.v) # a.fd.nsamples
            badExt == resolved \notin {"basis", "periodic", "slice", "1", "2", "3"}
        IN /\ (badLength \/ badExt) =>
                /\ rgPc = "raised"
                /\ rgResult.v.err = "ValueError"
                /\ rgIter = 0
           /\ rgPc = "raised" => (badLength \/ badExt)
           /\ (Len(a.initial.v) = 0 /\ rgIter = 0) => rgDelta = np_zeros(a.fd.nsamples)

\* 'default' resolved to a value that is no extrapolation, and the call raised
C18_Witness ==
    /\ ~rgArgs.none
    /\ rgArgs.v.ext = "default"
    /\ rgArgs.v.fd.default_extrapolation = "none"
    /\ Len(rgArgs.v.initial.v) = 0
    /\ rgPc = "raised"
    /\ rgResult.v.msg = IncorrectExt

\* C19: the loop stops exactly when the largest absolute update is below
\* the tolerance or maxiter iterations have run: after an iteration whose
\* largest absolute update is not below the tolerance (equal to it included)
\* another iteration follows while fewer than maxiter have run, and
\* otherwise the call returns.
C19_StopsExactlyBelowTol ==
    [][(rgPc = "loop" /\ rgIter >= 1) =>
          IF ~FLt(rgMaxDiff, rgArgs.v.tol) /\ rgIter < rgArgs.v.maxiter
          THEN rgPc' = "loop" /\ rgIter' = rgIter + 1
          ELSE rgPc' = "returned" /\ rgIter' = rgIter]_vars

C21_WorkingMesh ==
    [][(rgPc = "loop" /\ rgIter' = rgIter + 1) =>
          LET dom == rgArgs.v.fd.domain_range
              least == FMin(rgDelta)
              most == FMax(rgDelta)
              lo == FSub(Num(dom[1]), IF FLt(least, Num(0)) THEN least ELSE Num(0))
              hi == FSub(Num(dom[2]), IF FLt(Num(0), most) THEN most ELSE Num(0))
              inside == {k \in 1..Len(rgWhole) : FLe(lo, rgWhole[k]) /\ FLe(rgWhole[k], hi)}
          IN IF rgPeriodic[1]
             THEN /\ rgMesh' = rgWhole
                  /\ rgCols' = [k \in 1..Len(rgWhole) |-> k]
                  /\ rgD2' = trapz_square(rgCols', rgWhole)
             ELSE /\ Len(rgMesh') = Cardinality(inside)
                  /\ Len(rgCols') = Len(rgMesh')
                  /\ \A j \in 1..Len(rgMesh') :
                        /\ rgCols'[j] \in inside
                        /\ rgMesh'[j] = rgWhole[rgCols'[j]]
                        /\ j > 1 => rgCols'[j - 1] < rgCols'[j]
                  /\ rgD2' = trapz_square(rgCols', rgMesh')]_vars

\* in slice mode a second iteration worked on a mesh of fewer points than
\* the whole mesh
C21_Witness ==
    /\ rgPc = "loop"
    /\ ~rgPeriodic[1]
    /\ rgIter >= 2
    /\ Len(rgMesh) >= 2
    /\ Len(rgMesh) < Len(rgWhole)

\* C25: shift_registration leaves its caller's arguments as they were: at
\* every point of a call the array given as initial holds the values it was
\* given with, and the shift vector returned is not that array.
C25_InitialUntouched ==
    ~rgArgs.none =>
        /\ rgInitial = rgArgs.v.initial.v
        /\ (rgPc = "returned" /\ rgArgs.v.shifts_array /\ Len(rgArgs.v.initial.v) > 0) =>
              ~rgArgs.v.aliased

\* C29: in slice mode the mesh an iteration works on has at least two
\* points, for every initial shift vector and every shift vector reached.
C29_MeshNeverDegenerate ==
    (rgPc # "idle" /\ rgPc # "raised" /\ ~rgPeriodic[1]) => Len(rgMesh) >= 2

\* C22: landmark_shift gives curve i the shift landmark_i - target, the
\* target being (max + min) / 2 of the landmarks for 'minimize', their mean
\* for 'mean', their median for 'median', the middle of the domain for
\* 'middle' and the number given otherwise, so that for 'minimize' the
\* largest and the smallest shift are opposite; a number of landmarks other
\* than the number of samples raises before the location is read, and a
\* location that is no policy and no number raises.
C22_LandmarkShifts ==
    ~lmArgs.none =>
        LET a == lmArgs.v
            l == a.landmarks
            n == Len(l)
            loc == a.location
            res == lmResult.v
            policy == IF loc.kind = "text" THEN loc.name ELSE ""
            known == policy \in {"minimize", "mean", "median", "middle"}
            shifts == res.value.delta
            Target(t) == \A i \in 1..n : shifts[i] = FSub(l[i], t)
            below(t) == Cardinality({i \in 1..n : FLe(l[i], t)})
            above(t) == Cardinality({i \in 1..n : FLe(t, l[i])})
        IN IF n # a.fd.nsamples
           THEN res.err = "ValueError" /\ res.msg = "landmark list"
           ELSE IF ~known /\ ~loc.numeric
           THEN res.err = "ValueError" /\ res.msg = InvalidLocation
           ELSE /\ res.err = "ok"
                /\ res.value.kind = IF a.shifts_array THEN "array" ELSE "shift"
                /\ Len(shifts) = n
                /\ \E i \in 1..n : Target(FSub(l[i], shifts[i]))
                /\ policy = "minimize" =>
                      /\ \E i, j \in 1..n :
                            /\ \A k \in 1..n : FLe(l[j], l[k]) /\ FLe(l[k], l[i])
                            /\ Target(FDiv(FAdd(l[i], l[j]), Num(2)))
                      /\ FMax(shifts) = FSub(Num(0), FMin(shifts))
                /\ policy = "mean" => FSum(shifts) = Num(0)
                /\ policy = "median" =>
                      LET t == FSub(l[1], shifts[1])
                      IN /\ 2 * below(t) >= n
                         /\ 2 * above(t) >= n
                         /\ (\E i \in 1..n : l[i] = t)
                               \/ \E i, j \in 1..n : t = FDiv(FAdd(l[i], l[j]), Num(2))
                /\ policy = "middle" =>
                      Target(Frac(a.fd.domain_range[1] + a.fd.domain_range[2], 2))
                /\ ~known => Target(loc.v)

\* landmarks [0.2, 0.8] gave the shifts [-0.3, 0.3]
C22_Witness ==
    /\ ~lmArgs.none
    /\ lmArgs.v.location.name = "minimize"
    /\ lmArgs.v.landmarks = <<Frac(1, 5), Frac(4, 5)>>
    /\ lmResult.v.err = "ok"
    /\ lmResult.v.value.delta = <<Frac(-3, 10), Frac(3, 10)>>

\* C23: fit raises, before it assembles or solves anything, whenever the
\* outcome is no functional object, the numbers of predictors and of
\* coefficient bases differ, a predictor has another number of samples than
\* the outcome, an entry of beta_basis is no Basis, the weights are not one
\* per sample, or a weight is negative; omitted weights are all ones; inputs
\* with none of these faults pass validation.
C23_FitValidates ==
    ~ftResult.none =>
        LET b == ftBefore.v
            r == ftResult.v
            w == b.sample_weight
            Count(xj) == xj.n
            fault ==
                \/ b.y.cls # "FDataBasis"
                \/ Len(b.X) # Len(b.beta_basis)
                \/ \E j \in 1..Len(b.X) : Count(b.X[j]) # b.y.n
                \/ \E j \in 1..Len(b.beta_basis) : b.beta_basis[j].cls # "Basis"
                \/ ~w.none /\ Len(w.v) # b.y.n
                \/ ~w.none /\ \E i \in 1..Len(w.v) : w.v[i] < 0
        IN IF fault
           THEN r.err = "ValueError" /\ r.stages = <<"_argcheck">>
           ELSE /\ r.err \in {"ok", "LinAlgError"}
                /\ Len(r.stages) > 1
                /\ Len(r.weights) = b.y.n
                /\ w.none => \A i \in 1..b.y.n : r.weights[i] = 1
                /\ ~w.none => r.weights = w.v

\* a first call without weights on two samples passed validation with the
\* weights [1, 1], and one whose only fault is a negative weight raised
C23_Witness ==
    /\ ~ftResult.none
    /\ Len(ftHistory) = 1
    /\ \/ /\ ftBefore.v.sample_weight = None
          /\ ftResult.v.err = "ok"
          /\ ftResult.v.weights = <<1, 1>>
       \/ /\ ftBefore.v.sample_weight = Some(<<1, -1>>)
          /\ ftResult.v.msg = "The weights should be non negative values"

\* C24: when fit raises a validation error, the caller's list X, plain-list
\* entries included, the outcome y, the weights and the estimator's
\* beta_basis are as they were before the call.
C24_FailedFitLeavesInputs ==
    (~ftResult.none /\ ftResult.v.err = "ValueError") =>
        /\ ftArgs.v.X = ftBefore.v.X
        /\ ftArgs.v.y = ftBefore.v.y
        /\ ftArgs.v.sample_weight = ftBefore.v.sample_weight
        /\ ftSelf.v.beta_basis = ftBefore.v.beta_basis

\* C26: after a successful fit beta_basis still holds only Basis objects,
\* and a fit that follows a successful one on the same X, y and weights
\* succeeds as well.
C26_FitRepeatable ==
    /\ (~ftResult.none /\ ftResult.v.err = "ok") =>
           \A j \in 1..Len(ftSelf.v.beta_basis) : ftSelf.v.beta_basis[j].cls = "Basis"
    /\ \A i \in 1..Len(ftHistory) :
           (i > 1 /\ ftHistory[i - 1] = "ok") => ftHistory[i] = "ok"

\* C27: fd[k] with an integer -n_samples <= k < n_samples is an FDataBasis
\* of exactly one sample, on a basis equal to the source's, whose row of
\* coefficients is row k of the source, counted from the end when k < 0.
C27_IntegerKeySelectsOneRow ==
    (~opArgs.none /\ opArgs.v.op = "getitem") =>
        LET self == opArgs.v.self
            k == opArgs.v.other
            n == n_samples(self)
            row == IF k < 0 THEN k + n + 1 ELSE k + 1
            r == opResult.v
        IN (-n <= k /\ k < n) =>
               /\ r.err = "ok"
               /\ n_samples(r.obj) = 1
               /\ r.obj.coefficients.a = <<self.coefficients.a[row]>>
               /\ Basis_eq(r.obj.basis, self.basis)

\* C28: a call of _gram_matrix or _inner_matrix ends, no inner product it
\* asks for opens a matrix computation again (each is between two objects
\* of one sample and integrates), and a call that returns its matrix has
\* made n_basis * (n_basis + 1) / 2 integrations for a Gram matrix and
\* n_basis_self * n_basis_other for two different bases.
C28_MatrixTerminates ==
    /\ [](\A k \in 1..Len(gmStack) : gmStack[k].caller # "inner_product")
    /\ []((~gmResult.none /\ gmResult.v.err = "ok") =>
            LET n == gmCall.v.self.n_basis
                other == gmCall.v.other
            IN gmCount = IF other.none \/ Basis_eq(gmCall.v.self, other.v)
                         THEN (n * (n + 1)) \div 2
                         ELSE n * other.v.n_basis)
    /\ (~gmCall.none) ~> (~gmResult.none /\ gmStack = <<>>)

\* a Gram matrix of two functions was returned after three integrations, or
\* the matrix of two different bases of two functions each after four
C28_Witness ==
    /\ ~gmResult.none
    /\ gmResult.v.err = "ok"
    /\ gmCall.v.self.n_basis = 2
    /\ \/ gmCall.v.fn = "_gram_matrix" /\ gmCount = 3
       \/ /\ ~gmCall.v.other.none
          /\ gmCall.v.other.v.family # gmCall.v.self.family
          /\ gmCall.v.other.v.n_basis = 2
          /\ gmCount = 4

\* C30: after any copy(), derivative(0) and indexing, a write into the
\* coefficient matrix of one object changes the coefficients of no other
\* object, be it the source or one produced from it.
C30_WritesStayPrivate ==
    [][stLast'.op = "write" =>
          \A m \in 1..Len(stObjs) :
              m # stLast'.target =>
                  CoefficientsOf(stHeap', stObjs[m]) = CoefficientsOf(stHeap, stObjs[m])]_vars

====
